---------------------------- MODULE Spec2Model ----------------------------
(***************************************************************************)
(* The trie storage manager (trieStorageManager): its request queues, its  *)
(* pruning-block counter, its background worker, its Close protocol and    *)
(* its multi-storer lookup.                                                *)
(*                                                                         *)
(* Spec       the concurrent protocol: submitters (TakeSnapshot and        *)
(*            SetCheckpoint), the worker goroutine, one Close call, and    *)
(*            external callers of Enter/ExitPruningBufferingMode.          *)
(* FairSpec   the runs of Spec in which every call supplies a leavesChan,  *)
(*            with the fairness the Go scheduler gives each goroutine.     *)
(* StoreSpec  Get / Put / Remove over the contents of the storers.         *)
(* CounterSpec EnterPruningBufferingMode / ExitPruningBufferingMode over   *)
(*            the values of the 32-bit counter.                            *)
(* BlockedSpec FairSpec from one-slot queues, with the fairness of the     *)
(*            goroutines that are inside a call.                           *)
(* FifoSpec   the runs of FairSpec's steps from queues of MaxCalls slots.  *)
(* CloseSpec  the same steps with up to MaxCloses calls of Close.          *)
(* CloseErrSpec one Close call over the persisters that fail to close.     *)
(* ConstructSpec one NewTrieStorageManager call over the nil dependencies  *)
(*            and the contents of the snapshot directory.                  *)
(* RetentionSpec the list of snapshot databases while snapshot requests    *)
(*            are served.                                                  *)
(* WorkerSpec Spec without the external callers of the counter.            *)
(* LockSpec   the runs of Spec in which every call supplies a leavesChan.  *)
(* LoadSpec   the processing loop under load without end, with the         *)
(*            fairness of Go's select.                                     *)
(* RaceSpec   the foreground calls that use the storers, Close, and        *)
(*            SetEpochForPutOperation, which takes no lock.                *)
(***************************************************************************)
EXTENDS Integers, Sequences, FiniteSets, TLC

(***************************************************************************)
(* Bounds of the model.                                                    *)
(***************************************************************************)
\* total number of TakeSnapshot / SetCheckpoint calls in a run
MaxCalls == 2
\* GeneralConfig.SnapshotsBufferLen: the capacity of each request channel
SnapshotsBufferLen == 1
\* number of snapshot databases in tsm.snapshots
MaxSnapshotsLen == 2
\* number of counter operations in a run of CounterSpec
MaxCounterOps == 3
\* total number of Close calls in a run
MaxCloses == 2
\* number of children of the snapshot directory
MaxDirLen == 3
\* largest integer a child of the snapshot directory is named by
MaxSnapshotName == 2
\* largest GeneralConfig.MaxSnapshots
MaxMaxSnapshots == 2
\* number of snapshot requests the worker serves in a run of RetentionSpec
MaxServed == 3

\* goroutines that call TakeSnapshot / SetCheckpoint
Submitters == {1, 2}

\* goroutines outside the manager that call EnterPruningBufferingMode and, later,
\* ExitPruningBufferingMode, again and again
ExternalCallers == {"e1"}

EmptyTrieHash == "EmptyTrieHash"
RootHashes == {EmptyTrieHash, "h1"}

\* a nil leavesChan; a non-nil channel is named by the number of the call that supplied it
NilChan == 0
CallIds == 1..MaxCalls

Keys == {"k1"}
EmptyVal == ""
Vals == {EmptyVal, "A", "B"}

VARIABLES
    \* ---- fields of trieStorageManager
    mainStorer,          \* Keys -> Vals : what mainStorer.Get yields
    db,                  \* Keys -> Vals : the legacy storer
    checkpointsStorer,   \* Keys -> Vals
    snapshots,           \* sequence of Keys -> Vals, newest last
    pruningBlockingOps,  \* uint32
    checkpointHashesHolder, \* root hash -> the dirty hashes the holder keeps for it
    queueCap,            \* cap(tsm.snapshotReq) = cap(tsm.checkpointReq)
    snapshotReq,         \* chan *snapshotsQueueEntry, as the sequence of its buffered entries
    checkpointReq,
    closed,              \* tsm.closed
    cancelled,           \* ctx.Done() is closed (cancelFunc was called)
    closerFired,         \* tsm.closer.ChanClose() is closed
    lock,                \* storageOperationMutex: "none", or the goroutine holding it exclusively
    \* ---- goroutines
    spc,                 \* Submitters -> position inside TakeSnapshot / SetCheckpoint
    sentry,              \* Submitters -> the entry the call is about to enqueue
    wpc,                 \* position of the worker goroutine
    wentry,              \* the entry the worker took out of a queue
    woutcome,            \* outcome of the procedure the worker ran for wentry
    cpc,                 \* position inside Close
    \* ---- observations
    nextCall,            \* number of the next TakeSnapshot / SetCheckpoint call
    supplied,            \* the calls that were given a non-nil leavesChan
    chanCloses,          \* CallIds -> number of close() calls on that call's leavesChan
    finished,            \* CallIds -> number of finishOperation calls for that call's entry
    acceptedWhen,        \* CallIds -> when the call's entry was put on a queue ("no": never)
    returnedBy,          \* CallIds -> the return statement the call left by ("no": not yet)
    foundFull,           \* the calls that reached their select when neither case was ready
    closesStarted,       \* number of Close calls started
    closesReturned,      \* number of Close calls that returned
    persisterCloses,     \* per persister, number of Close calls it received
    epc,                 \* ExternalCallers -> "out", or "in" between its Enter and its Exit
    lastPut,             \* the last successful Put not followed by a Remove of its key
    lastRemove,          \* the key of the last successful Remove not followed by a successful Put of it
    lastGet,             \* arguments and result of the last call, when it was a Get
    lastWrite,           \* arguments and result of the last call, when it was a Put or a Remove
    \* ---- the counter with its full width
    pruningBlockingOps32, \* tsm.pruningBlockingOps as a uint32: its two 16-bit halves
    counterLog,          \* the last two counter operations, each with the value it found
    \* ---- one call looked at on its own
    callArgs,            \* the arguments of the call (op "none": no such call in this run)
    callResult           \* what the call returned and built (done FALSE: it has not run)

storeVars == <<mainStorer, db, checkpointsStorer, snapshots, lastPut, lastRemove, lastGet,
               lastWrite>>
cfgVars == <<queueCap, callArgs, callResult>>
u32Vars == <<pruningBlockingOps32, counterLog>>
queueVars == <<snapshotReq, checkpointReq>>
closeVars == <<closed, cancelled, closerFired, cpc, closesStarted, closesReturned,
               persisterCloses>>
subVars == <<spc, sentry, nextCall>>
workVars == <<wpc, wentry, woutcome>>
obsVars == <<supplied, chanCloses, finished, acceptedWhen, returnedBy, foundFull>>
extVars == <<epc>>
protoVars == <<pruningBlockingOps, lock, queueVars, closeVars, subVars, workVars,
               obsVars, extVars, cfgVars, u32Vars>>
vars == <<storeVars, checkpointHashesHolder, protoVars>>
\* every variable but callArgs and callResult
managerVars == <<storeVars, checkpointHashesHolder, pruningBlockingOps, lock, queueVars,
                 closeVars, subVars, workVars, obsVars, extVars, u32Vars, queueCap>>

NoEntry == [id |-> 0, rootHash |-> "", newDb |-> FALSE, leavesChan |-> NilChan]
NoPut == [key |-> "", val |-> EmptyVal]
NoGet == [key |-> "", errs |-> {}, val |-> EmptyVal, err |-> "none"]
NoWrite == [op |-> "none", key |-> "", ret |-> "none"]
NoKey == ""
EmptyPersister == [k \in Keys |-> EmptyVal]

Entry(id, rootHash, newDb, leavesChan) ==
    [id |-> id, rootHash |-> rootHash, newDb |-> newDb, leavesChan |-> leavesChan]

(***************************************************************************)
(* The checkpoint hashes holder, by its contract: a mapping from root hash *)
(* to the set of node hashes committed under that root.                    *)
(***************************************************************************)
\* the holder when the manager is built: it keeps every key for every root hash
FullHolder == [r \in RootHashes |-> Keys]

\* checkpointHashesHolder.RemoveCommitted(rootHash): the entry of rootHash is dropped
RemoveCommitted(h, rootHash) == [r \in (DOMAIN h) \ {rootHash} |-> h[r]]

\* checkpointHashesHolder.Remove(hash): the hash is dropped from every entry
HolderRemove(h, hash) == [r \in DOMAIN h |-> h[r] \ {hash}]

(***************************************************************************)
(* The pruning-block counter and the channels.                             *)
(***************************************************************************)
\* a faulty EnterPruningBufferingMode, which leaves the counter as it is
EnterSkipsIncrement(c) == c

\* EnterPruningBufferingMode: tsm.pruningBlockingOps++ (a uint32; a run makes at most
\* MaxCalls increments plus one per external caller, so the wrap at 2^32 is out of reach)
EnterCount(c) == c + 1

\* a faulty ExitPruningBufferingMode, which leaves the counter as it is
ExitSkipsDecrement(c) == c

\* ExitPruningBufferingMode: no change below 1, else tsm.pruningBlockingOps--
ExitCount(c) == IF c < 1 THEN c ELSE c - 1

\* IsPruningBlocked
IsPruningBlocked == pruningBlockingOps # 0

\* a uint32 as its two 16-bit halves: the value is hi * Half + lo
Half == 65536
U32(hi, lo) == [hi |-> hi, lo |-> lo]
U32Zero == U32(0, 0)
U32Max == U32(Half - 1, Half - 1)

\* a faulty ExitPruningBufferingMode, which decrements without its test
ExitCount32Unguarded(c) ==
    IF c.lo > 0 THEN U32(c.hi, c.lo - 1)
    ELSE IF c.hi > 0 THEN U32(c.hi - 1, Half - 1)
    ELSE U32Max

\* EnterPruningBufferingMode on the uint32: tsm.pruningBlockingOps++, which wraps to 0
\* after 2^32 - 1
EnterCount32(c) ==
    IF c.lo < Half - 1 THEN U32(c.hi, c.lo + 1)
    ELSE IF c.hi < Half - 1 THEN U32(c.hi + 1, 0)
    ELSE U32Zero

\* ExitPruningBufferingMode on the uint32: no change below 1, else
\* tsm.pruningBlockingOps--
ExitCount32(c) ==
    IF c = U32Zero THEN c
    ELSE IF c.lo > 0 THEN U32(c.hi, c.lo - 1)
    ELSE U32(c.hi - 1, Half - 1)

\* safelyCloseChan: close(ch) unless ch is nil
safelyCloseChan(cc, ch) == IF ch # NilChan THEN [cc EXCEPT ![ch] = @ + 1] ELSE cc

\* a faulty channel, whose buffer takes any number of entries
CanSendUnbounded(q) == Len(q) >= 0

\* a channel send that does not block: the buffer has a free slot
CanSend(q) == Len(q) < queueCap

\* the phase of Close in which an entry is put on a queue
Phase ==
    IF closesStarted = 0 THEN "beforeClose"
    ELSE IF ~closerFired THEN "closing"
    ELSE IF closesReturned = 0 THEN "fired"
    ELSE "returned"

\* the calls between their EnterPruningBufferingMode and the end of their select
Submitting == {p \in Submitters : spc[p] \in {"tsSelect", "scSelect", "exit"}}

\* the worker holds an entry whose finishOperation has not yet run
Serving == wpc \in {"takeSnapshot", "takeCheckpoint", "finishOperation", "cleanupFinish"}

\* the external callers between their Enter and their Exit
ExternalInside == {e \in ExternalCallers : epc[e] = "in"}

Queued == Len(snapshotReq) + Len(checkpointReq)

\* the manager NewTrieStorageManager returns, for channels of capacity cap; counter32
\* is the value the full-width counter starts a run with
InitManager(cap, counter32) ==
    /\ queueCap = cap
    /\ pruningBlockingOps32 = counter32
    /\ counterLog = <<>>
    /\ mainStorer = EmptyPersister
    /\ db = EmptyPersister
    /\ checkpointsStorer = EmptyPersister
    /\ snapshots = [i \in 1..MaxSnapshotsLen |-> EmptyPersister]
    /\ lastPut = NoPut
    /\ lastRemove = NoKey
    /\ lastGet = NoGet
    /\ lastWrite = NoWrite
    /\ checkpointHashesHolder = FullHolder
    /\ pruningBlockingOps = 0
    /\ snapshotReq = <<>>
    /\ checkpointReq = <<>>
    /\ closed = FALSE
    /\ cancelled = FALSE
    /\ closerFired = FALSE
    /\ lock = "none"
    /\ spc = [p \in Submitters |-> "idle"]
    /\ sentry = [p \in Submitters |-> NoEntry]
    /\ wpc = "loop"
    /\ wentry = NoEntry
    /\ woutcome = "none"
    /\ cpc = "idle"
    /\ nextCall = 1
    /\ supplied = {}
    /\ foundFull = {}
    /\ chanCloses = [c \in CallIds |-> 0]
    /\ finished = [c \in CallIds |-> 0]
    /\ acceptedWhen = [c \in CallIds |-> "no"]
    /\ returnedBy = [c \in CallIds |-> "no"]
    /\ closesStarted = 0
    /\ closesReturned = 0
    /\ persisterCloses = [db |-> 0, snapshots |-> [i \in 1..MaxSnapshotsLen |-> 0],
                          mainStorer |-> 0, checkpointsStorer |-> 0]
    /\ epc = [e \in ExternalCallers |-> "out"]

\* no call is looked at on its own
NotCalled == [done |-> FALSE]

NoCall ==
    /\ callArgs = [op |-> "none"]
    /\ callResult = NotCalled

InitWith(cap, counter32) == InitManager(cap, counter32) /\ NoCall

Init == InitWith(SnapshotsBufferLen, U32Zero)

(***************************************************************************)
(* TakeSnapshot and SetCheckpoint.                                         *)
(***************************************************************************)
\* a caller starts a call only when the callers named before it are inside one: the
\* callers are interchangeable, so this only leaves out renamed copies of a run
MayStart(p) ==
    /\ spc[p] = "idle"
    /\ nextCall <= MaxCalls
    /\ \A q \in Submitters : (q < p) => spc[q] # "idle"

\* a faulty TakeSnapshot, which makes its empty-trie test after
\* EnterPruningBufferingMode: the call returns with the counter incremented
TakeSnapshotLateEmptyTest(p, rootHash, newDb, leavesChan) ==
    /\ MayStart(p)
    /\ lock = "none"
    /\ IF closed
       THEN /\ chanCloses' = safelyCloseChan(chanCloses, leavesChan)
            /\ returnedBy' = [returnedBy EXCEPT ![nextCall] = "isClosed"]
            /\ UNCHANGED <<spc, sentry, pruningBlockingOps>>
       ELSE IF rootHash = EmptyTrieHash
       THEN /\ chanCloses' = safelyCloseChan(chanCloses, leavesChan)
            /\ returnedBy' = [returnedBy EXCEPT ![nextCall] = "emptyTrie"]
            /\ pruningBlockingOps' = EnterCount(pruningBlockingOps)
            /\ UNCHANGED <<spc, sentry>>
       ELSE /\ spc' = [spc EXCEPT ![p] = "tsEnter"]
            /\ sentry' = [sentry EXCEPT ![p] = Entry(nextCall, rootHash, newDb, leavesChan)]
            /\ UNCHANGED <<chanCloses, pruningBlockingOps, returnedBy>>
    /\ supplied' = IF leavesChan # NilChan THEN supplied \cup {nextCall} ELSE supplied
    /\ nextCall' = nextCall + 1
    /\ UNCHANGED <<storeVars, checkpointHashesHolder, cfgVars, u32Vars, lock, queueVars,
                   closeVars, workVars, finished, acceptedWhen, extVars, foundFull>>

\* TakeSnapshot(rootHash, newDb, leavesChan) up to its EnterPruningBufferingMode call:
\* isClosed (under the read lock), then the empty-trie test; both early returns close
\* leavesChan
TakeSnapshotCall(p, rootHash, newDb, leavesChan) ==
    /\ MayStart(p)
    /\ lock = "none"
    /\ IF closed \/ rootHash = EmptyTrieHash
       THEN /\ chanCloses' = safelyCloseChan(chanCloses, leavesChan)
            /\ returnedBy' = [returnedBy EXCEPT
                                ![nextCall] = IF closed THEN "isClosed" ELSE "emptyTrie"]
            /\ UNCHANGED <<spc, sentry>>
       ELSE /\ spc' = [spc EXCEPT ![p] = "tsEnter"]
            /\ sentry' = [sentry EXCEPT ![p] = Entry(nextCall, rootHash, newDb, leavesChan)]
            /\ UNCHANGED <<chanCloses, returnedBy>>
    /\ supplied' = IF leavesChan # NilChan THEN supplied \cup {nextCall} ELSE supplied
    /\ nextCall' = nextCall + 1
    /\ UNCHANGED <<storeVars, checkpointHashesHolder, cfgVars, u32Vars,
                   pruningBlockingOps, lock, queueVars, closeVars, workVars, finished,
                   acceptedWhen, extVars, foundFull>>

\* a faulty SetCheckpoint, which does not test the closed flag
SetCheckpointNoClosedTest(p, rootHash, leavesChan) ==
    /\ MayStart(p)
    /\ lock = "none"
    /\ IF rootHash = EmptyTrieHash
       THEN /\ chanCloses' = safelyCloseChan(chanCloses, leavesChan)
            /\ returnedBy' = [returnedBy EXCEPT ![nextCall] = "emptyTrie"]
            /\ UNCHANGED <<spc, sentry>>
       ELSE /\ spc' = [spc EXCEPT ![p] = "scEnter"]
            /\ sentry' = [sentry EXCEPT ![p] = Entry(nextCall, rootHash, FALSE, leavesChan)]
            /\ UNCHANGED <<chanCloses, returnedBy>>
    /\ supplied' = IF leavesChan # NilChan THEN supplied \cup {nextCall} ELSE supplied
    /\ nextCall' = nextCall + 1
    /\ UNCHANGED <<storeVars, checkpointHashesHolder, cfgVars, u32Vars,
                   pruningBlockingOps, lock, queueVars, closeVars, workVars, finished,
                   acceptedWhen, extVars, foundFull>>

\* SetCheckpoint(rootHash, leavesChan) up to its EnterPruningBufferingMode call; the
\* entry has newDb = false
SetCheckpointCall(p, rootHash, leavesChan) ==
    /\ MayStart(p)
    /\ lock = "none"
    /\ IF closed \/ rootHash = EmptyTrieHash
       THEN /\ chanCloses' = safelyCloseChan(chanCloses, leavesChan)
            /\ returnedBy' = [returnedBy EXCEPT
                                ![nextCall] = IF closed THEN "isClosed" ELSE "emptyTrie"]
            /\ UNCHANGED <<spc, sentry>>
       ELSE /\ spc' = [spc EXCEPT ![p] = "scEnter"]
            /\ sentry' = [sentry EXCEPT ![p] = Entry(nextCall, rootHash, FALSE, leavesChan)]
            /\ UNCHANGED <<chanCloses, returnedBy>>
    /\ supplied' = IF leavesChan # NilChan THEN supplied \cup {nextCall} ELSE supplied
    /\ nextCall' = nextCall + 1
    /\ UNCHANGED <<storeVars, checkpointHashesHolder, cfgVars, u32Vars,
                   pruningBlockingOps, lock, queueVars, closeVars, workVars, finished,
                   acceptedWhen, extVars, foundFull>>

\* a TakeSnapshot call, with any arguments
TakeSnapshot(p) ==
    \E rootHash \in RootHashes, newDb \in BOOLEAN, leavesChan \in {NilChan, nextCall} :
        TakeSnapshotCall(p, rootHash, newDb, leavesChan)

\* a SetCheckpoint call, with any arguments
SetCheckpoint(p) ==
    \E rootHash \in RootHashes, leavesChan \in {NilChan, nextCall} :
        SetCheckpointCall(p, rootHash, leavesChan)

\* a faulty TakeSnapshot, which goes to its select without its RemoveCommitted call
SubmitterEnterNoRemoveCommitted(p) ==
    /\ spc[p] \in {"tsEnter", "scEnter"}
    /\ lock = "none"
    /\ pruningBlockingOps' = EnterCount(pruningBlockingOps)
    /\ spc' = [spc EXCEPT ![p] = IF spc[p] = "tsEnter" THEN "tsSelect" ELSE "scSelect"]
    /\ foundFull' =
          IF ~closerFired /\
             ~CanSend(IF spc[p] = "tsEnter" THEN snapshotReq ELSE checkpointReq)
          THEN foundFull \cup {sentry[p].id}
          ELSE foundFull
    /\ UNCHANGED <<storeVars, checkpointHashesHolder, cfgVars, u32Vars, lock, queueVars,
                   closeVars, sentry, nextCall, workVars, supplied, chanCloses, finished,
                   acceptedWhen, returnedBy, extVars>>

\* a faulty TakeSnapshot / SetCheckpoint, which goes to its select with the manager lock
\* of its EnterPruningBufferingMode still held
SubmitterEnterKeepsLock(p) ==
    /\ spc[p] \in {"tsEnter", "scEnter"}
    /\ lock = "none"
    /\ lock' = "submitter"
    /\ pruningBlockingOps' = EnterCount(pruningBlockingOps)
    /\ checkpointHashesHolder' =
          IF spc[p] = "tsEnter"
          THEN RemoveCommitted(checkpointHashesHolder, sentry[p].rootHash)
          ELSE checkpointHashesHolder
    /\ spc' = [spc EXCEPT ![p] = IF spc[p] = "tsEnter" THEN "tsSelect" ELSE "scSelect"]
    /\ foundFull' =
          IF ~closerFired /\
             ~CanSend(IF spc[p] = "tsEnter" THEN snapshotReq ELSE checkpointReq)
          THEN foundFull \cup {sentry[p].id}
          ELSE foundFull
    /\ UNCHANGED <<storeVars, cfgVars, u32Vars, queueVars, closeVars, sentry,
                   nextCall, workVars, supplied, chanCloses, finished, acceptedWhen,
                   returnedBy, extVars>>

\* tsm.EnterPruningBufferingMode() inside TakeSnapshot / SetCheckpoint; in TakeSnapshot
\* checkpointHashesHolder.RemoveCommitted(rootHash) follows it, before the select
SubmitterEnter(p) ==
    /\ spc[p] \in {"tsEnter", "scEnter"}
    /\ lock = "none"
    /\ pruningBlockingOps' = EnterCount(pruningBlockingOps)
    /\ checkpointHashesHolder' =
          IF spc[p] = "tsEnter"
          THEN RemoveCommitted(checkpointHashesHolder, sentry[p].rootHash)
          ELSE checkpointHashesHolder
    /\ spc' = [spc EXCEPT ![p] = IF spc[p] = "tsEnter" THEN "tsSelect" ELSE "scSelect"]
    /\ foundFull' =
          IF ~closerFired /\
             ~CanSend(IF spc[p] = "tsEnter" THEN snapshotReq ELSE checkpointReq)
          THEN foundFull \cup {sentry[p].id}
          ELSE foundFull
    /\ UNCHANGED <<storeVars, cfgVars, u32Vars, lock, queueVars, closeVars, sentry,
                   nextCall, workVars, supplied, chanCloses, finished, acceptedWhen,
                   returnedBy, extVars>>

\* a faulty TakeSnapshot, which closes the leavesChan after it has sent the request
TakeSnapshotSendClosesChan(p) ==
    /\ spc[p] = "tsSelect"
    /\ CanSend(snapshotReq)
    /\ snapshotReq' = Append(snapshotReq, sentry[p])
    /\ chanCloses' = safelyCloseChan(chanCloses, sentry[p].leavesChan)
    /\ acceptedWhen' = [acceptedWhen EXCEPT ![sentry[p].id] = Phase]
    /\ returnedBy' = [returnedBy EXCEPT ![sentry[p].id] = "send"]
    /\ spc' = [spc EXCEPT ![p] = "idle"]
    /\ sentry' = [sentry EXCEPT ![p] = NoEntry]
    /\ UNCHANGED <<storeVars, checkpointHashesHolder, cfgVars, u32Vars,
                   pruningBlockingOps, lock, checkpointReq, closeVars, nextCall,
                   workVars, supplied, finished, extVars, foundFull>>

\* select: case tsm.snapshotReq <- snapshotEntry
TakeSnapshotSend(p) ==
    /\ spc[p] = "tsSelect"
    /\ CanSend(snapshotReq)
    /\ snapshotReq' = Append(snapshotReq, sentry[p])
    /\ acceptedWhen' = [acceptedWhen EXCEPT ![sentry[p].id] = Phase]
    /\ returnedBy' = [returnedBy EXCEPT ![sentry[p].id] = "send"]
    /\ spc' = [spc EXCEPT ![p] = "idle"]
    /\ sentry' = [sentry EXCEPT ![p] = NoEntry]
    /\ UNCHANGED <<storeVars, checkpointHashesHolder, cfgVars, u32Vars,
                   pruningBlockingOps, lock, checkpointReq, closeVars, nextCall,
                   workVars, supplied, chanCloses, finished, extVars, foundFull>>

\* select: case tsm.checkpointReq <- checkpointEntry
SetCheckpointSend(p) ==
    /\ spc[p] = "scSelect"
    /\ CanSend(checkpointReq)
    /\ checkpointReq' = Append(checkpointReq, sentry[p])
    /\ acceptedWhen' = [acceptedWhen EXCEPT ![sentry[p].id] = Phase]
    /\ returnedBy' = [returnedBy EXCEPT ![sentry[p].id] = "send"]
    /\ spc' = [spc EXCEPT ![p] = "idle"]
    /\ sentry' = [sentry EXCEPT ![p] = NoEntry]
    /\ UNCHANGED <<storeVars, checkpointHashesHolder, cfgVars, u32Vars,
                   pruningBlockingOps, lock, snapshotReq, closeVars, nextCall, workVars,
                   supplied, chanCloses, finished, extVars, foundFull>>

\* a faulty select, which has a default branch: the call gives up when its queue is full
SubmitterGivesUpWhenFull(p) ==
    /\ spc[p] \in {"tsSelect", "scSelect"}
    /\ closerFired \/ ~CanSend(IF spc[p] = "tsSelect" THEN snapshotReq ELSE checkpointReq)
    /\ spc' = [spc EXCEPT ![p] = "exit"]
    /\ UNCHANGED <<storeVars, checkpointHashesHolder, cfgVars, u32Vars,
                   pruningBlockingOps, lock, queueVars, closeVars, sentry, nextCall,
                   workVars, obsVars, extVars>>

\* select: case <-tsm.closer.ChanClose()
SubmitterCloserFired(p) ==
    /\ spc[p] \in {"tsSelect", "scSelect"}
    /\ closerFired
    /\ spc' = [spc EXCEPT ![p] = "exit"]
    /\ UNCHANGED <<storeVars, checkpointHashesHolder, cfgVars, u32Vars,
                   pruningBlockingOps, lock, queueVars, closeVars, sentry, nextCall,
                   workVars, obsVars, extVars>>

\* the closer branch: tsm.ExitPruningBufferingMode(), then
\* tsm.safelyCloseChan(leavesChan), and the call returns
SubmitterExit(p) ==
    /\ spc[p] = "exit"
    /\ lock = "none"
    /\ pruningBlockingOps' = ExitCount(pruningBlockingOps)
    /\ chanCloses' = safelyCloseChan(chanCloses, sentry[p].leavesChan)
    /\ returnedBy' = [returnedBy EXCEPT ![sentry[p].id] = "closer"]
    /\ spc' = [spc EXCEPT ![p] = "idle"]
    /\ sentry' = [sentry EXCEPT ![p] = NoEntry]
    /\ UNCHANGED <<storeVars, checkpointHashesHolder, cfgVars, u32Vars, lock, queueVars,
                   closeVars, nextCall, workVars, supplied, finished, acceptedWhen,
                   extVars, foundFull>>

(***************************************************************************)
(* The worker goroutine: doCheckpointsAndSnapshots.                        *)
(***************************************************************************)
\* a faulty doProcessLoop, which takes the request that was put on the queue last
doProcessLoopSnapshotTakesLast ==
    /\ wpc = "loop"
    /\ snapshotReq # <<>>
    /\ wentry' = snapshotReq[Len(snapshotReq)]
    /\ snapshotReq' = SubSeq(snapshotReq, 1, Len(snapshotReq) - 1)
    /\ wpc' = "takeSnapshot"
    /\ UNCHANGED <<storeVars, checkpointHashesHolder, cfgVars, u32Vars,
                   pruningBlockingOps, lock, checkpointReq, closeVars, subVars,
                   woutcome, obsVars, extVars>>

\* doProcessLoop, case snapshotRequest := <-tsm.snapshotReq
doProcessLoopSnapshot ==
    /\ wpc = "loop"
    /\ snapshotReq # <<>>
    /\ wentry' = Head(snapshotReq)
    /\ snapshotReq' = Tail(snapshotReq)
    /\ wpc' = "takeSnapshot"
    /\ UNCHANGED <<storeVars, checkpointHashesHolder, cfgVars, u32Vars,
                   pruningBlockingOps, lock, checkpointReq, closeVars, subVars,
                   woutcome, obsVars, extVars>>

\* a faulty doProcessLoop, which reads the request and leaves it on the channel
doProcessLoopCheckpointKeepsEntry ==
    /\ wpc = "loop"
    /\ checkpointReq # <<>>
    /\ wentry' = Head(checkpointReq)
    /\ wpc' = "takeCheckpoint"
    /\ UNCHANGED <<storeVars, checkpointHashesHolder, cfgVars, u32Vars,
                   pruningBlockingOps, lock, queueVars, closeVars, subVars, woutcome,
                   obsVars, extVars>>

\* a faulty doProcessLoop, whose select looks at the checkpoint channel only when the
\* snapshot channel is empty
doProcessLoopCheckpointAfterSnapshots ==
    /\ wpc = "loop"
    /\ snapshotReq = <<>>
    /\ checkpointReq # <<>>
    /\ wentry' = Head(checkpointReq)
    /\ checkpointReq' = Tail(checkpointReq)
    /\ wpc' = "takeCheckpoint"
    /\ UNCHANGED <<storeVars, checkpointHashesHolder, cfgVars, u32Vars,
                   pruningBlockingOps, lock, snapshotReq, closeVars, subVars, woutcome,
                   obsVars, extVars>>

\* doProcessLoop, case snapshotRequest := <-tsm.checkpointReq
doProcessLoopCheckpoint ==
    /\ wpc = "loop"
    /\ checkpointReq # <<>>
    /\ wentry' = Head(checkpointReq)
    /\ checkpointReq' = Tail(checkpointReq)
    /\ wpc' = "takeCheckpoint"
    /\ UNCHANGED <<storeVars, checkpointHashesHolder, cfgVars, u32Vars,
                   pruningBlockingOps, lock, snapshotReq, closeVars, subVars, woutcome,
                   obsVars, extVars>>

\* doProcessLoop, case <-ctx.Done(): return, and cleanupChans starts
doProcessLoopDone ==
    /\ wpc = "loop"
    /\ cancelled
    /\ wpc' = "cleanupWait"
    /\ UNCHANGED <<storeVars, checkpointHashesHolder, cfgVars, u32Vars,
                   pruningBlockingOps, lock, queueVars, closeVars, subVars, wentry,
                   woutcome, obsVars, extVars>>

\* takeSnapshot up to its return: newSnapshotNode (which reads the root node through
\* tsm.Get, under the manager lock), newSnapshotTrieStorageManager, commitSnapshot
takeSnapshot ==
    /\ wpc = "takeSnapshot"
    /\ lock = "none"
    /\ \E out \in {"decodeError", "stsmError", "nil", "ErrContextClosing", "error"} :
          woutcome' = out
    /\ wpc' = "finishOperation"
    /\ UNCHANGED <<storeVars, checkpointHashesHolder, cfgVars, u32Vars,
                   pruningBlockingOps, lock, queueVars, closeVars, subVars, wentry,
                   obsVars, extVars>>

\* takeCheckpoint up to its return: newSnapshotNode, commitCheckpoint
takeCheckpoint ==
    /\ wpc = "takeCheckpoint"
    /\ lock = "none"
    /\ \E out \in {"decodeError", "nil", "ErrContextClosing", "error"} :
          woutcome' = out
    /\ wpc' = "finishOperation"
    /\ UNCHANGED <<storeVars, checkpointHashesHolder, cfgVars, u32Vars,
                   pruningBlockingOps, lock, queueVars, closeVars, subVars, wentry,
                   obsVars, extVars>>

\* a faulty worker, whose procedures finish the operation on their last return only: the
\* returns taken on an error leave the counter and the leavesChan as they are
finishOperationOnlyOnSuccess ==
    /\ wpc \in {"finishOperation", "cleanupFinish"}
    /\ lock = "none"
    /\ LET skipped == wpc = "finishOperation" /\ woutcome \in {"decodeError", "stsmError"}
       IN /\ pruningBlockingOps' = IF skipped THEN pruningBlockingOps
                                   ELSE ExitCount(pruningBlockingOps)
          /\ finished' = IF skipped THEN finished
                         ELSE [finished EXCEPT ![wentry.id] = @ + 1]
          /\ chanCloses' = IF skipped THEN chanCloses
                           ELSE safelyCloseChan(chanCloses, wentry.leavesChan)
    /\ wpc' = IF wpc = "finishOperation" THEN "loop" ELSE "cleanup"
    /\ wentry' = NoEntry
    /\ woutcome' = "none"
    /\ UNCHANGED <<storeVars, checkpointHashesHolder, cfgVars, u32Vars, lock, queueVars,
                   closeVars, subVars, supplied, acceptedWhen, returnedBy, extVars,
                   foundFull>>

\* finishOperation: tsm.ExitPruningBufferingMode(), then
\* tsm.safelyCloseChan(snapshotEntry.leavesChan); it runs as the deferred call of
\* takeSnapshot / takeCheckpoint and as the body of the cleanup drain, and the worker
\* goes back to the select it came from
finishOperation ==
    /\ wpc \in {"finishOperation", "cleanupFinish"}
    /\ lock = "none"
    /\ pruningBlockingOps' = ExitCount(pruningBlockingOps)
    /\ finished' = [finished EXCEPT ![wentry.id] = @ + 1]
    /\ chanCloses' = safelyCloseChan(chanCloses, wentry.leavesChan)
    /\ wpc' = IF wpc = "finishOperation" THEN "loop" ELSE "cleanup"
    /\ wentry' = NoEntry
    /\ woutcome' = "none"
    /\ UNCHANGED <<storeVars, checkpointHashesHolder, cfgVars, u32Vars, lock, queueVars,
                   closeVars, subVars, supplied, acceptedWhen, returnedBy, extVars,
                   foundFull>>

\* a faulty cleanupChans, which starts the drain without the closer signal
cleanupChansNoWait ==
    /\ wpc = "cleanupWait"
    /\ wpc' = "cleanup"
    /\ UNCHANGED <<storeVars, checkpointHashesHolder, cfgVars, u32Vars,
                   pruningBlockingOps, lock, queueVars, closeVars, subVars, wentry,
                   woutcome, obsVars, extVars>>

\* cleanupChans: <-tsm.closer.ChanClose()
cleanupChansWait ==
    /\ wpc = "cleanupWait"
    /\ closerFired
    /\ wpc' = "cleanup"
    /\ UNCHANGED <<storeVars, checkpointHashesHolder, cfgVars, u32Vars,
                   pruningBlockingOps, lock, queueVars, closeVars, subVars, wentry,
                   woutcome, obsVars, extVars>>

\* cleanupChans, case entry := <-tsm.snapshotReq
cleanupChansSnapshot ==
    /\ wpc = "cleanup"
    /\ snapshotReq # <<>>
    /\ wentry' = Head(snapshotReq)
    /\ snapshotReq' = Tail(snapshotReq)
    /\ wpc' = "cleanupFinish"
    /\ UNCHANGED <<storeVars, checkpointHashesHolder, cfgVars, u32Vars,
                   pruningBlockingOps, lock, checkpointReq, closeVars, subVars,
                   woutcome, obsVars, extVars>>

\* cleanupChans, case entry := <-tsm.checkpointReq
cleanupChansCheckpoint ==
    /\ wpc = "cleanup"
    /\ checkpointReq # <<>>
    /\ wentry' = Head(checkpointReq)
    /\ checkpointReq' = Tail(checkpointReq)
    /\ wpc' = "cleanupFinish"
    /\ UNCHANGED <<storeVars, checkpointHashesHolder, cfgVars, u32Vars,
                   pruningBlockingOps, lock, snapshotReq, closeVars, subVars, woutcome,
                   obsVars, extVars>>

\* a faulty cleanupChans, which returns without looking at the channels
cleanupChansStopsEarly ==
    /\ wpc = "cleanup"
    /\ wpc' = "done"
    /\ UNCHANGED <<storeVars, checkpointHashesHolder, cfgVars, u32Vars,
                   pruningBlockingOps, lock, queueVars, closeVars, subVars, wentry,
                   woutcome, obsVars, extVars>>

\* cleanupChans, default: both channels are empty, the goroutine ends
cleanupChansDefault ==
    /\ wpc = "cleanup"
    /\ snapshotReq = <<>>
    /\ checkpointReq = <<>>
    /\ wpc' = "done"
    /\ UNCHANGED <<storeVars, checkpointHashesHolder, cfgVars, u32Vars,
                   pruningBlockingOps, lock, queueVars, closeVars, subVars, wentry,
                   woutcome, obsVars, extVars>>

(***************************************************************************)
(* Close.                                                                  *)
(***************************************************************************)
\* storageOperationMutex.Lock(); tsm.cancelFunc(); the first Close call of a run
CloseLock ==
    /\ cpc = "idle"
    /\ closesStarted = 0
    /\ lock = "none"
    /\ lock' = "Close"
    /\ cancelled' = TRUE
    /\ closesStarted' = closesStarted + 1
    /\ cpc' = "setClosed"
    /\ UNCHANGED <<storeVars, checkpointHashesHolder, cfgVars, u32Vars,
                   pruningBlockingOps, queueVars, closed, closerFired, closesReturned,
                   persisterCloses, subVars, workVars, obsVars, extVars>>

\* tsm.closed = true
CloseSetClosed ==
    /\ cpc = "setClosed"
    /\ closed' = TRUE
    /\ cpc' = "persisters"
    /\ UNCHANGED <<storeVars, checkpointHashesHolder, cfgVars, u32Vars,
                   pruningBlockingOps, lock, queueVars, cancelled, closerFired,
                   closesStarted, closesReturned, persisterCloses, subVars, workVars,
                   obsVars, extVars>>

\* tsm.db.Close(), every sdb.Close(), tsm.mainStorer.Close(), tsm.checkpointsStorer.Close()
ClosePersisters ==
    /\ cpc = "persisters"
    /\ persisterCloses' =
          [db |-> persisterCloses.db + 1,
           snapshots |-> [i \in 1..Len(snapshots) |-> persisterCloses.snapshots[i] + 1],
           mainStorer |-> persisterCloses.mainStorer + 1,
           checkpointsStorer |-> persisterCloses.checkpointsStorer + 1]
    /\ cpc' = "closer"
    /\ UNCHANGED <<storeVars, checkpointHashesHolder, cfgVars, u32Vars,
                   pruningBlockingOps, lock, queueVars, closed, cancelled, closerFired,
                   closesStarted, closesReturned, subVars, workVars, obsVars, extVars>>

\* a faulty Close, which returns without firing the closer
CloseForgetsCloser ==
    /\ cpc = "closer"
    /\ cpc' = "unlock"
    /\ UNCHANGED <<storeVars, checkpointHashesHolder, cfgVars, u32Vars,
                   pruningBlockingOps, lock, queueVars, closed, cancelled, closerFired,
                   closesStarted, closesReturned, persisterCloses, subVars, workVars,
                   obsVars, extVars>>

\* the deferred tsm.closer.Close()
CloseCloser ==
    /\ cpc = "closer"
    /\ closerFired' = TRUE
    /\ cpc' = "unlock"
    /\ UNCHANGED <<storeVars, checkpointHashesHolder, cfgVars, u32Vars,
                   pruningBlockingOps, lock, queueVars, closed, cancelled,
                   closesStarted, closesReturned, persisterCloses, subVars, workVars,
                   obsVars, extVars>>

\* a faulty Close, which returns with the manager lock held
CloseKeepsLock ==
    /\ cpc = "unlock"
    /\ closesReturned' = closesReturned + 1
    /\ cpc' = "idle"
    /\ UNCHANGED <<storeVars, checkpointHashesHolder, cfgVars, u32Vars,
                   pruningBlockingOps, lock, queueVars, closed, cancelled, closerFired,
                   closesStarted, persisterCloses, subVars, workVars, obsVars, extVars>>

\* the deferred storageOperationMutex.Unlock(); Close returns
CloseUnlock ==
    /\ cpc = "unlock"
    /\ lock' = "none"
    /\ closesReturned' = closesReturned + 1
    /\ cpc' = "idle"
    /\ UNCHANGED <<storeVars, checkpointHashesHolder, cfgVars, u32Vars,
                   pruningBlockingOps, queueVars, closed, cancelled, closerFired,
                   closesStarted, persisterCloses, subVars, workVars, obsVars, extVars>>

(***************************************************************************)
(* Callers of the exported counter operations other than the manager.      *)
(***************************************************************************)
\* EnterPruningBufferingMode, called from outside
EnterPruningBufferingMode(e) ==
    /\ epc[e] = "out"
    /\ lock = "none"
    /\ pruningBlockingOps' = EnterCount(pruningBlockingOps)
    /\ epc' = [epc EXCEPT ![e] = "in"]
    /\ UNCHANGED <<storeVars, checkpointHashesHolder, cfgVars, u32Vars, lock, queueVars,
                   closeVars, subVars, workVars, obsVars>>

\* ExitPruningBufferingMode, called from outside by a caller that entered before
ExitPruningBufferingMode(e) ==
    /\ epc[e] = "in"
    /\ lock = "none"
    /\ pruningBlockingOps' = ExitCount(pruningBlockingOps)
    /\ epc' = [epc EXCEPT ![e] = "out"]
    /\ UNCHANGED <<storeVars, checkpointHashesHolder, cfgVars, u32Vars, lock, queueVars,
                   closeVars, subVars, workVars, obsVars>>

Submitter(p) ==
    \/ TakeSnapshot(p)
    \/ SetCheckpoint(p)
    \/ SubmitterEnter(p)
    \/ TakeSnapshotSend(p)
    \/ SetCheckpointSend(p)
    \/ SubmitterCloserFired(p)
    \/ SubmitterExit(p)

Worker ==
    \/ doProcessLoopSnapshot
    \/ doProcessLoopCheckpoint
    \/ doProcessLoopDone
    \/ takeSnapshot
    \/ takeCheckpoint
    \/ finishOperation
    \/ cleanupChansWait
    \/ cleanupChansSnapshot
    \/ cleanupChansCheckpoint
    \/ cleanupChansDefault

Closer ==
    \/ CloseLock
    \/ CloseSetClosed
    \/ ClosePersisters
    \/ CloseCloser
    \/ CloseUnlock

Next ==
    \/ \E p \in Submitters : Submitter(p)
    \/ Worker
    \/ Closer
    \/ \E e \in ExternalCallers : EnterPruningBufferingMode(e)
    \/ \E e \in ExternalCallers : ExitPruningBufferingMode(e)

Spec == Init /\ [][Next]_vars

(***************************************************************************)
(* Get, Put and Remove over the storers.  A persister is the function from *)
(* a key to the value its Get yields for it (the empty value: nothing);    *)
(* the error its Get returns with that value is an input of the call.      *)
(***************************************************************************)
\* the persisters of the manager are numbered: 1 mainStorer, 2 db, 3 checkpointsStorer,
\* 3 + i the snapshot database tsm.snapshots[i - 1]
PersisterIds == 1..(3 + Len(snapshots))

ErrKeyNotFound == "ErrKeyNotFound"

\* the loop of getFromOtherStorers over tsm.snapshots, from index i down to 1
RECURSIVE getFromSnapshots(_, _)
getFromSnapshots(key, i) ==
    IF i < 1 THEN [val |-> EmptyVal, err |-> ErrKeyNotFound]
    ELSE IF snapshots[i][key] # EmptyVal THEN [val |-> snapshots[i][key], err |-> "nil"]
    ELSE getFromSnapshots(key, i - 1)

\* a faulty getFromOtherStorers, which asks checkpointsStorer before db
getFromOtherStorersCheckpointsFirst(key, errs) ==
    IF checkpointsStorer[key] # EmptyVal THEN [val |-> checkpointsStorer[key], err |-> "nil"]
    ELSE IF db[key] # EmptyVal THEN [val |-> db[key], err |-> "nil"]
    ELSE getFromSnapshots(key, Len(snapshots))

\* getFromOtherStorers: db, checkpointsStorer, then the snapshots; the errors of the
\* persisters (errs: the layers whose Get returns one) are dropped
getFromOtherStorers(key, errs) ==
    IF db[key] # EmptyVal THEN [val |-> db[key], err |-> "nil"]
    ELSE IF checkpointsStorer[key] # EmptyVal THEN [val |-> checkpointsStorer[key], err |-> "nil"]
    ELSE getFromSnapshots(key, Len(snapshots))

\* a faulty Get, which returns the error of mainStorer.Get
GetStopsOnError(key, errs) ==
    IF 1 \in errs THEN [val |-> EmptyVal, err |-> "persister error"]
    ELSE IF mainStorer[key] # EmptyVal THEN [val |-> mainStorer[key], err |-> "nil"]
    ELSE getFromOtherStorers(key, errs)

\* Get: the value of mainStorer if it is not empty, else getFromOtherStorers
Get(key, errs) ==
    IF mainStorer[key] # EmptyVal THEN [val |-> mainStorer[key], err |-> "nil"]
    ELSE getFromOtherStorers(key, errs)

\* a faulty Put, which writes nothing
PutDropsValue(st, key, val) == st

\* mainStorer.Put(key, val) that returned no error: Get yields val from then on
PutMain(st, key, val) == [st EXCEPT ![key] = val]

\* what the Put or the Remove of a persister returns
PersisterErrs == {"nil", "persister error"}

\* Get as a call: under the manager lock; lastGet keeps its arguments and its result
GetCall ==
    /\ lock = "none"
    /\ \E key \in Keys, errs \in SUBSET PersisterIds :
          lastGet' = [key |-> key, errs |-> errs,
                      val |-> Get(key, errs).val, err |-> Get(key, errs).err]
    /\ lastWrite' = NoWrite
    /\ UNCHANGED <<mainStorer, db, checkpointsStorer, snapshots, lastPut, lastRemove,
                   checkpointHashesHolder, protoVars>>

\* a faulty Put, which writes the value to the legacy storer too
PutCallAlsoIntoDb(key, val, err) ==
    /\ lock = "none"
    /\ IF err = "nil"
       THEN /\ mainStorer' = PutMain(mainStorer, key, val)
            /\ db' = PutMain(db, key, val)
            /\ lastPut' = [key |-> key, val |-> val]
            /\ lastRemove' = IF lastRemove = key THEN NoKey ELSE lastRemove
       ELSE UNCHANGED <<mainStorer, db, lastPut, lastRemove>>
    /\ lastWrite' = [op |-> "Put", key |-> key, ret |-> err]
    /\ lastGet' = NoGet
    /\ UNCHANGED <<checkpointsStorer, snapshots, checkpointHashesHolder, protoVars>>

\* Put(key, val), under the manager lock: tsm.mainStorer.Put(key, val), whose error
\* (err) is returned as it is; a Put that fails leaves the storer as it was.  lastPut
\* keeps the last Put of a key that returned no error
PutCall(key, val, err) ==
    /\ lock = "none"
    /\ IF err = "nil"
       THEN /\ mainStorer' = PutMain(mainStorer, key, val)
            /\ lastPut' = [key |-> key, val |-> val]
            /\ lastRemove' = IF lastRemove = key THEN NoKey ELSE lastRemove
       ELSE UNCHANGED <<mainStorer, lastPut, lastRemove>>
    /\ lastWrite' = [op |-> "Put", key |-> key, ret |-> err]
    /\ lastGet' = NoGet
    /\ UNCHANGED <<db, checkpointsStorer, snapshots, checkpointHashesHolder, protoVars>>

\* a faulty Remove, which removes the hash from the legacy storer too
RemoveCallAlsoFromDb(key, err) ==
    /\ lock = "none"
    /\ checkpointHashesHolder' = HolderRemove(checkpointHashesHolder, key)
    /\ lastPut' = IF lastPut.key = key THEN NoPut ELSE lastPut
    /\ IF err = "nil"
       THEN /\ mainStorer' = [mainStorer EXCEPT ![key] = EmptyVal]
            /\ db' = [db EXCEPT ![key] = EmptyVal]
            /\ lastRemove' = key
       ELSE UNCHANGED <<mainStorer, db, lastRemove>>
    /\ lastWrite' = [op |-> "Remove", key |-> key, ret |-> err]
    /\ lastGet' = NoGet
    /\ UNCHANGED <<checkpointsStorer, snapshots, protoVars>>

\* Remove(hash), under the manager lock: checkpointHashesHolder.Remove(hash), then
\* tsm.mainStorer.Remove(hash), whose error (err) is returned as it is; a Remove of the
\* key, whatever it returns, ends the Put that lastPut keeps
RemoveCall(key, err) ==
    /\ lock = "none"
    /\ checkpointHashesHolder' = HolderRemove(checkpointHashesHolder, key)
    /\ lastPut' = IF lastPut.key = key THEN NoPut ELSE lastPut
    /\ IF err = "nil"
       THEN /\ mainStorer' = [mainStorer EXCEPT ![key] = EmptyVal]
            /\ lastRemove' = key
       ELSE UNCHANGED <<mainStorer, lastRemove>>
    /\ lastWrite' = [op |-> "Remove", key |-> key, ret |-> err]
    /\ lastGet' = NoGet
    /\ UNCHANGED <<db, checkpointsStorer, snapshots, protoVars>>

\* a Put call, with any arguments and any outcome of the persister
Put == \E key \in Keys, val \in Vals, err \in PersisterErrs : PutCall(key, val, err)

\* a Remove call, with any argument and any outcome of the persister
Remove == \E key \in Keys, err \in PersisterErrs : RemoveCall(key, err)

\* the contents the other storers can have: written by earlier checkpoints and
\* snapshots, and by the node before the manager was built
InitStore ==
    /\ NoCall
    /\ queueCap = SnapshotsBufferLen
    /\ pruningBlockingOps32 = U32Zero
    /\ counterLog = <<>>
    /\ mainStorer \in [Keys -> Vals]
    /\ db \in [Keys -> Vals]
    /\ checkpointsStorer \in [Keys -> Vals]
    /\ \E n \in 0..MaxSnapshotsLen : snapshots \in [1..n -> [Keys -> Vals]]
    /\ lastPut = NoPut
    /\ lastRemove = NoKey
    /\ lastGet = NoGet
    /\ lastWrite = NoWrite
    /\ checkpointHashesHolder = FullHolder
    /\ pruningBlockingOps = 0
    /\ snapshotReq = <<>>
    /\ checkpointReq = <<>>
    /\ closed = FALSE
    /\ cancelled = FALSE
    /\ closerFired = FALSE
    /\ lock = "none"
    /\ spc = [p \in Submitters |-> "idle"]
    /\ sentry = [p \in Submitters |-> NoEntry]
    /\ wpc = "loop"
    /\ wentry = NoEntry
    /\ woutcome = "none"
    /\ cpc = "idle"
    /\ nextCall = 1
    /\ supplied = {}
    /\ foundFull = {}
    /\ chanCloses = [c \in CallIds |-> 0]
    /\ finished = [c \in CallIds |-> 0]
    /\ acceptedWhen = [c \in CallIds |-> "no"]
    /\ returnedBy = [c \in CallIds |-> "no"]
    /\ closesStarted = 0
    /\ closesReturned = 0
    /\ persisterCloses = [db |-> 0, snapshots |-> [i \in 1..Len(snapshots) |-> 0],
                          mainStorer |-> 0, checkpointsStorer |-> 0]
    /\ epc = [e \in ExternalCallers |-> "out"]

NextStore ==
    \/ GetCall
    \/ Put
    \/ Remove

StoreSpec == InitStore /\ [][NextStore]_vars

(***************************************************************************)
(* The scheduling of the goroutines: a goroutine that can take a step      *)
(* takes one (the worker, whose walker calls return, and Close once it     *)
(* holds the lock); nothing obliges a caller to call or to be scheduled.   *)
(* The runs of FairSpec are those of Spec in which every call supplies a   *)
(* leavesChan and no external caller uses the counter.                     *)
(***************************************************************************)
EveryCallSupplies == supplied = 1..(nextCall - 1)

\* the steps of a Close call that holds the lock
CloseRunning ==
    \/ CloseSetClosed
    \/ ClosePersisters
    \/ CloseCloser
    \/ CloseUnlock

NextFair ==
    /\ \/ \E p \in Submitters : Submitter(p)
       \/ Worker
       \/ Closer
    /\ EveryCallSupplies'

FairSpec == Init /\ [][NextFair]_vars /\ WF_vars(Worker) /\ WF_vars(CloseRunning)

(***************************************************************************)
(* Properties of the protocol.                                             *)
(***************************************************************************)
\* nothing can change the queues or a channel any more: Close returned, the worker
\* goroutine ended and no call is in progress (a call that starts now returns at its
\* isClosed test)
Quiescent ==
    /\ closesReturned > 0
    /\ wpc = "done"
    /\ \A p \in Submitters : spc[p] = "idle"

\* C1: after any TakeSnapshot / SetCheckpoint calls and one Close, every non-nil
\* leavesChan that was supplied gets closed, and is closed exactly once: no channel is
\* closed twice, and once nothing can run any more every supplied channel is closed
C1_EveryLeavesChanClosedOnce ==
    /\ \A id \in CallIds : chanCloses[id] <= 1
    /\ Quiescent => \A id \in supplied : chanCloses[id] = 1

\* a request that was put on a queue while the worker goroutine had already ended: it
\* stays there, its channel open, when nothing can run any more
C1_LeftInQueue ==
    /\ Quiescent
    /\ \E id \in supplied : acceptedWhen[id] # "no" /\ chanCloses[id] = 0

\* C2: every request put on a queue before Close was called is finished exactly once
\* (by the worker's procedure or by the cleanup drain): its finishOperation runs, which
\* decrements the counter and closes its leavesChan, and it runs only once
C2_PreCloseRequestsFinished ==
    /\ [](\A id \in CallIds : finished[id] <= 1 /\ chanCloses[id] <= 1)
    /\ (closesStarted > 0) ~>
          (\A id \in CallIds :
              acceptedWhen[id] = "beforeClose" =>
                  (finished[id] = 1 /\ (id \in supplied => chanCloses[id] = 1)))

\* C2 witness: a request accepted before Close was finished by the cleanup drain
C2_Witness ==
    \E id \in CallIds :
        /\ acceptedWhen[id] = "beforeClose"
        /\ id \in supplied
        /\ wpc = "cleanup"
        /\ finished[id] = 1
        /\ chanCloses[id] = 1
        /\ closesReturned > 0

\* C3: once Close has returned, no entry is added to the snapshot queue or to the
\* checkpoint queue
C3_NoEntryAfterCloseReturned ==
    \A id \in CallIds : acceptedWhen[id] # "returned"

\* a call that had passed its isClosed test before Close ran put its request on the
\* snapshot queue after Close returned
C3_AcceptedAfterClose ==
    /\ closesReturned > 0
    /\ snapshotReq # <<>>
    /\ acceptedWhen[Head(snapshotReq).id] = "returned"

C5_PruningBlockedWhileRequests ==
    (Queued > 0 \/ Serving) => (pruningBlockingOps >= 1 /\ IsPruningBlocked)

\* C5 witness: one request in a queue and another one being served
C5_Witness ==
    /\ Queued > 0
    /\ wpc = "takeCheckpoint"
    /\ pruningBlockingOps = 2

ServingCount == IF Serving THEN 1 ELSE 0

\* C6: the counter equals the number of queued requests plus the number of requests
\* being served, when no external caller is between Enter and Exit (an external
\* Enter/Exit pair changes nothing but the counter, which it leaves as it found it)
C6_CounterIsQueuedPlusServing ==
    ExternalInside = {} => pruningBlockingOps = Queued + ServingCount

\* C6 as amended: the counter equals the queued requests, plus the request being
\* served, plus the calls that have incremented the counter and have neither enqueued
\* their request nor undone the increment, plus the external callers inside
C6_CounterIsQueuedServingSubmitting ==
    pruningBlockingOps =
        Queued + ServingCount + Cardinality(Submitting) + Cardinality(ExternalInside)

\* C6 witness: a call has incremented the counter and waits on the full snapshot
\* queue, so the counter is one above the queued and served requests
C6_Witness ==
    /\ \E p \in Submitters : spc[p] = "tsSelect"
    /\ Len(snapshotReq) = SnapshotsBufferLen
    /\ ExternalInside = {}
    /\ pruningBlockingOps = Queued + ServingCount + 1

\* C7: once both queues are empty and no request is being served or submitted, the
\* counter is back at the value the external callers alone give it (0 without them)
C7_CounterBackWhenDrained ==
    (Queued = 0 /\ ~Serving /\ Submitting = {}) =>
        pruningBlockingOps = Cardinality(ExternalInside)

\* C7 witness: a request was finished, a call took the closer branch, and the counter
\* is 0 again
C7_Witness ==
    /\ Queued = 0 /\ ~Serving /\ Submitting = {}
    /\ \A p \in Submitters : spc[p] = "idle"
    /\ \E id \in CallIds : finished[id] = 1
    /\ \E id \in CallIds : id < nextCall /\ acceptedWhen[id] = "no" /\ id \in supplied
                              /\ ~closed
    /\ pruningBlockingOps = 0

(***************************************************************************)
(* Properties of Get, Put and Remove.                                      *)
(***************************************************************************)
\* what the layers yield for a key, from the highest precedence to the lowest: main
\* storer, legacy storer, checkpoints storer, then the snapshot databases from the last
\* index of the list to the first
LayerValues(key) ==
    <<mainStorer[key], db[key], checkpointsStorer[key]>>
        \o [i \in 1..Len(snapshots) |-> snapshots[Len(snapshots) + 1 - i][key]]

HoldingLayers(key) == {i \in 1..Len(LayerValues(key)) : LayerValues(key)[i] # EmptyVal}

FirstHoldingLayer(key) ==
    CHOOSE i \in HoldingLayers(key) : \A j \in HoldingLayers(key) : i <= j

\* C8: Get returns the non-empty value of the first layer that holds one, in the order
\* main, legacy (db), checkpoints, snapshots from the last index down to the first
C8_GetFirstHoldingLayer ==
    (lastGet # NoGet /\ HoldingLayers(lastGet.key) # {}) =>
        /\ lastGet.val = LayerValues(lastGet.key)[FirstHoldingLayer(lastGet.key)]
        /\ lastGet.err = "nil"

\* C8 witness: only the two snapshot databases hold a value, two different ones, and Get
\* returned the one of the last database of the list
C8_Witness ==
    /\ lastGet # NoGet
    /\ Len(snapshots) = 2
    /\ HoldingLayers(lastGet.key) = {4, 5}
    /\ snapshots[1][lastGet.key] # snapshots[2][lastGet.key]
    /\ lastGet.val = snapshots[2][lastGet.key]

\* C9: Get returns ErrKeyNotFound exactly when every layer yields an empty value for
\* the key; the error of a persister never ends the search and is never returned
C9_KeyNotFoundIffAllEmpty ==
    lastGet # NoGet =>
        /\ lastGet.err \in {"nil", ErrKeyNotFound}
        /\ lastGet.err = ErrKeyNotFound <=> HoldingLayers(lastGet.key) = {}
        /\ lastGet.err = ErrKeyNotFound => lastGet.val = EmptyVal

\* C9 witness: the Get of every persister but the last returned an error, and Get
\* returned the value the last layer searched holds, with no error
C9_Witness ==
    /\ lastGet # NoGet
    /\ Len(snapshots) = 2
    /\ lastGet.errs = {1, 2, 3, 5}
    /\ HoldingLayers(lastGet.key) = {5}
    /\ lastGet.val = snapshots[1][lastGet.key]
    /\ lastGet.err = "nil"

\* C10: after a Put(k, v) that returned no error, the empty v included, and no
\* Remove(k) since, Get(k) returns v
C10_GetAfterPut ==
    (lastGet # NoGet /\ lastPut # NoPut /\ lastGet.key = lastPut.key) =>
        lastGet.val = lastPut.val /\ lastGet.err = "nil"

\* C10 as amended: after a Put(k, v) of a non-empty v that returned no error, and no
\* Remove(k) since, Get(k) returns v, whatever the other layers contain
C10_GetAfterPutNonEmpty ==
    (lastGet # NoGet /\ lastPut # NoPut /\ lastGet.key = lastPut.key
                     /\ lastPut.val # EmptyVal) =>
        lastGet.val = lastPut.val /\ lastGet.err = "nil"

\* C10 witness: Get returned the value that was put, and the legacy storer holds
\* another one for the key
C10_Witness ==
    /\ lastGet # NoGet /\ lastPut # NoPut /\ lastGet.key = lastPut.key
    /\ lastPut.val # EmptyVal
    /\ db[lastPut.key] \notin {EmptyVal, lastPut.val}
    /\ lastGet.val = lastPut.val

\* C11: Put changes only the main storer: the legacy storer, the checkpoints storer, the
\* snapshot databases, the counter, both queues and the checkpoint hashes holder are as
\* before, and the caller gets the error the main storer's Put returned
C11_PutChangesOnlyMain ==
    [][lastWrite'.op = "Put" =>
          \A key \in Keys, val \in Vals, err \in PersisterErrs :
             PutCall(key, val, err) =>
                 /\ UNCHANGED <<db, checkpointsStorer, snapshots, pruningBlockingOps,
                                snapshotReq, checkpointReq, checkpointHashesHolder>>
                 /\ lastWrite'.ret = err]_vars

\* C11 witness: a Put returned no error, the main storer holds its value, and the
\* legacy and checkpoints storers still hold another value for the key
C11_Witness ==
    /\ lastWrite.op = "Put" /\ lastWrite.ret = "nil"
    /\ mainStorer[lastWrite.key] = lastPut.val
    /\ lastPut.val # EmptyVal
    /\ db[lastWrite.key] \notin {EmptyVal, lastPut.val}
    /\ checkpointsStorer[lastWrite.key] \notin {EmptyVal, lastPut.val}

\* the layers below the main storer that hold a value for the key
LowerHoldingLayers(key) == HoldingLayers(key) \ {1}

FirstLowerHoldingLayer(key) ==
    CHOOSE i \in LowerHoldingLayers(key) : \A j \in LowerHoldingLayers(key) : i <= j

\* C12: Remove(hash) removes the hash from the checkpoint hashes holder (whatever the
\* main storer's Remove returns) and from the main storer, and leaves the legacy storer,
\* the checkpoints storer and the snapshot databases as they were; a Get after a Remove
\* that returned no error yields the value of the highest remaining layer
C12_RemoveOnlyFromMain ==
    /\ [][lastWrite'.op = "Remove" =>
             \A key \in Keys, err \in PersisterErrs :
                RemoveCall(key, err) =>
                    /\ UNCHANGED <<db, checkpointsStorer, snapshots>>
                    /\ \A r \in DOMAIN checkpointHashesHolder' :
                           key \notin checkpointHashesHolder'[r]
                    /\ err = "nil" => mainStorer'[key] = EmptyVal
                    /\ lastWrite'.ret = err]_vars
    /\ []((lastGet # NoGet /\ lastRemove = lastGet.key) =>
             IF LowerHoldingLayers(lastGet.key) = {}
             THEN lastGet.err = ErrKeyNotFound
             ELSE /\ lastGet.err = "nil"
                  /\ lastGet.val =
                        LayerValues(lastGet.key)[FirstLowerHoldingLayer(lastGet.key)])

\* C12 witness: after a Remove of the key, Get returned the value of the legacy storer,
\* while the checkpoints storer holds another one
C12_Witness ==
    /\ lastGet # NoGet /\ lastRemove = lastGet.key
    /\ db[lastGet.key] # EmptyVal
    /\ checkpointsStorer[lastGet.key] \notin {EmptyVal, db[lastGet.key]}
    /\ lastGet.val = db[lastGet.key]
    /\ \A r \in DOMAIN checkpointHashesHolder : lastGet.key \notin checkpointHashesHolder[r]

(***************************************************************************)
(* The counter operations over the values of the uint32.                   *)
(***************************************************************************)
\* the values a run starts with: near 0, near 2^16, near 2^32
HalfValues == {0, 1, Half - 2, Half - 1}
U32Values == {U32(hi, lo) : hi \in HalfValues, lo \in HalfValues}

notU32Vars == <<storeVars, checkpointHashesHolder, pruningBlockingOps, lock, queueVars,
                closeVars, subVars, workVars, obsVars, extVars, cfgVars>>

\* EnterPruningBufferingMode, under the manager lock
EnterPruningBufferingModeU32 ==
    /\ lock = "none"
    /\ Len(counterLog) < MaxCounterOps
    /\ pruningBlockingOps32' = EnterCount32(pruningBlockingOps32)
    /\ counterLog' = Append(counterLog, [op |-> "Enter", before |-> pruningBlockingOps32])
    /\ UNCHANGED notU32Vars

\* ExitPruningBufferingMode, under the manager lock
ExitPruningBufferingModeU32 ==
    /\ lock = "none"
    /\ Len(counterLog) < MaxCounterOps
    /\ pruningBlockingOps32' = ExitCount32(pruningBlockingOps32)
    /\ counterLog' = Append(counterLog, [op |-> "Exit", before |-> pruningBlockingOps32])
    /\ UNCHANGED notU32Vars

InitCounter == \E c \in U32Values : InitWith(SnapshotsBufferLen, c)

NextCounter ==
    \/ EnterPruningBufferingModeU32
    \/ ExitPruningBufferingModeU32

CounterSpec == InitCounter /\ [][NextCounter]_vars

\* the value the i-th operation of the log left
AfterOp(i) ==
    IF i < Len(counterLog) THEN counterLog[i + 1].before ELSE pruningBlockingOps32

U32Less(a, b) == a.hi < b.hi \/ (a.hi = b.hi /\ a.lo < b.lo)

\* C13: for every value of the counter, EnterPruningBufferingMode followed by
\* ExitPruningBufferingMode, with no other counter operation in between, leaves the
\* counter at the value it had
C13_EnterThenExitRestores ==
    \A i \in 1..(Len(counterLog) - 1) :
        (counterLog[i].op = "Enter" /\ counterLog[i + 1].op = "Exit") =>
            AfterOp(i + 1) = counterLog[i].before

\* Enter found the counter at 2^32 - 1 and wrapped it to 0, and the Exit that followed
\* left it at 0
C13_WrappedAtMax ==
    /\ Len(counterLog) = 2
    /\ counterLog[1] = [op |-> "Enter", before |-> U32Max]
    /\ counterLog[2] = [op |-> "Exit", before |-> U32Zero]
    /\ pruningBlockingOps32 = U32Zero

\* C14: ExitPruningBufferingMode called while the counter is 0 leaves it at 0 and
\* changes nothing else, and no ExitPruningBufferingMode leaves the counter above the
\* value it found (the uint32 never wraps below zero)
C14_ExitSaturatesAtZero ==
    /\ [](\A i \in 1..Len(counterLog) :
             counterLog[i].op = "Exit" =>
                 /\ ~U32Less(counterLog[i].before, AfterOp(i))
                 /\ counterLog[i].before = U32Zero => AfterOp(i) = U32Zero)
    /\ [][(ExitPruningBufferingModeU32 /\ pruningBlockingOps32 = U32Zero) =>
             (pruningBlockingOps32' = U32Zero /\ UNCHANGED notU32Vars)]_vars

\* C14 witness: an Exit found the counter at 0 and left it at 0, then an Enter and an
\* Exit brought it to 1 and back
C14_Witness ==
    /\ Len(counterLog) = 3
    /\ counterLog[1] = [op |-> "Exit", before |-> U32Zero]
    /\ counterLog[2] = [op |-> "Enter", before |-> U32Zero]
    /\ counterLog[3] = [op |-> "Exit", before |-> U32(0, 1)]
    /\ pruningBlockingOps32 = U32Zero

(***************************************************************************)
(* The early returns and the select of TakeSnapshot and SetCheckpoint.     *)
(***************************************************************************)
\* the step is the start of a TakeSnapshot or SetCheckpoint call
CallStarts == nextCall' = nextCall + 1

\* the call returned at once: leavesChan (ch) is closed if it is not nil, and the
\* counter, both queues, the checkpoint hashes holder, the snapshot list and the
\* storers are as before; no call is left in progress
ReturnsAtOnceClosing(ch) ==
    /\ chanCloses' = IF ch = NilChan THEN chanCloses ELSE [chanCloses EXCEPT ![ch] = @ + 1]
    /\ UNCHANGED <<pruningBlockingOps, snapshotReq, checkpointReq, checkpointHashesHolder,
                   snapshots, mainStorer, db, checkpointsStorer, spc, sentry,
                   acceptedWhen, finished>>

\* C15: TakeSnapshot and SetCheckpoint called with the empty-trie root hash close the
\* supplied leavesChan and change nothing else: counter, queues, checkpoint hashes
\* holder (no RemoveCommitted) and snapshot list are as before
C15_EmptyTrieOnlyClosesChan ==
    [][CallStarts =>
          \A p \in Submitters, newDb \in BOOLEAN, ch \in {NilChan, nextCall} :
             (\/ TakeSnapshotCall(p, EmptyTrieHash, newDb, ch)
              \/ SetCheckpointCall(p, EmptyTrieHash, ch)) => ReturnsAtOnceClosing(ch)]_vars

\* C15 witness: on a manager that is not closed, a call returned at its empty-trie test
\* with its leavesChan closed, after another call had put a request on a queue
C15_Witness ==
    /\ ~closed /\ closesStarted = 0
    /\ Queued = 1 /\ pruningBlockingOps = 1
    /\ \E id \in supplied :
          /\ returnedBy[id] = "emptyTrie"
          /\ chanCloses[id] = 1
          /\ acceptedWhen[id] = "no"

\* C16: a TakeSnapshot or SetCheckpoint call that reads the closed flag as set closes
\* the supplied leavesChan, puts nothing on a queue, leaves the counter and the
\* checkpoint hashes holder as they are, for every root hash
C16_ClosedOnlyClosesChan ==
    [][(closed /\ CallStarts) =>
          \A p \in Submitters, rootHash \in RootHashes, newDb \in BOOLEAN,
             ch \in {NilChan, nextCall} :
             (\/ TakeSnapshotCall(p, rootHash, newDb, ch)
              \/ SetCheckpointCall(p, rootHash, ch)) => ReturnsAtOnceClosing(ch)]_vars

\* C16 witness: a call made after Close returned at its isClosed test with its leavesChan
\* closed, the holder untouched and nothing in the queues
C16_Witness ==
    /\ closed
    /\ Queued = 0 /\ pruningBlockingOps = 0
    /\ checkpointHashesHolder = FullHolder
    /\ \E id \in supplied :
          /\ returnedBy[id] = "isClosed"
          /\ chanCloses[id] = 1
          /\ acceptedWhen[id] = "no"

\* the queue the call of p sends to
QueueOf(p) == IF spc[p] = "tsSelect" THEN snapshotReq ELSE checkpointReq

AtSelect(p) == spc[p] \in {"tsSelect", "scSelect"}

\* C17: a call that waits on a full queue when the close signal has fired does not
\* enqueue its request: it takes the closer branch, where it decrements the counter once
\* and closes its leavesChan once
C17_CloserBranchUndoesTheCall ==
    /\ [][\A p \in Submitters :
             /\ (AtSelect(p) /\ ~CanSend(QueueOf(p)) /\ closerFired /\ spc'[p] # spc[p]) =>
                    (spc'[p] = "exit" /\ UNCHANGED <<queueVars, pruningBlockingOps,
                                                     chanCloses, acceptedWhen>>)
             /\ (spc[p] = "exit" /\ spc'[p] # "exit") =>
                    /\ pruningBlockingOps' = pruningBlockingOps - 1
                    /\ chanCloses' =
                          IF sentry[p].leavesChan = NilChan THEN chanCloses
                          ELSE [chanCloses EXCEPT ![sentry[p].leavesChan] = @ + 1]
                    /\ returnedBy'[sentry[p].id] = "closer"
                    /\ UNCHANGED <<queueVars, acceptedWhen>>]_vars
    /\ [](\A id \in CallIds :
             returnedBy[id] = "closer" =>
                 /\ acceptedWhen[id] = "no"
                 /\ finished[id] = 0
                 /\ chanCloses[id] = IF id \in supplied THEN 1 ELSE 0)

\* C17 witness: the snapshot queue was full before the close signal fired and still is,
\* and a TakeSnapshot call that waited on it has taken the closer branch
C17_Witness ==
    /\ closerFired
    /\ Len(snapshotReq) = queueCap
    /\ \A i \in 1..Len(snapshotReq) :
          acceptedWhen[snapshotReq[i].id] \in {"beforeClose", "closing"}
    /\ \E p \in Submitters :
          /\ spc[p] = "exit"
          /\ sentry[p].newDb
          /\ sentry[p].leavesChan # NilChan
          /\ acceptedWhen[sentry[p].id] = "no"

(***************************************************************************)
(* BlockedSpec: the runs of FairSpec from the smallest buffered queues     *)
(* (one slot each), in which the goroutine of a call that is inside        *)
(* TakeSnapshot or SetCheckpoint is scheduled too.                         *)
(***************************************************************************)
\* the steps of a call of p after its early-return tests
InCall(p) ==
    \/ SubmitterEnter(p)
    \/ TakeSnapshotSend(p)
    \/ SetCheckpointSend(p)
    \/ SubmitterCloserFired(p)
    \/ SubmitterExit(p)

InitBlocked == InitWith(1, U32Zero)

BlockedSpec ==
    /\ InitBlocked
    /\ [][NextFair]_vars
    /\ WF_vars(Worker)
    /\ WF_vars(CloseRunning)
    /\ \A p \in Submitters : WF_vars(InCall(p))

C18_ReturnedBySending ==
    \E id \in foundFull : returnedBy[id] = "send" /\ ~closerFired

(***************************************************************************)
(* FifoSpec: the runs of Spec in which every call supplies a leavesChan,   *)
(* from queues with one slot per call of the run, so that all the requests *)
(* of a run can wait in one queue together.                                *)
(***************************************************************************)
InitFifo == InitWith(MaxCalls, U32Zero)

FifoSpec == InitFifo /\ [][NextFair]_vars

\* the request of call id waits in one of the two queues
InQueues(id) ==
    \/ \E i \in 1..Len(snapshotReq) : snapshotReq[i].id = id
    \/ \E i \in 1..Len(checkpointReq) : checkpointReq[i].id = id

\* every request accepted earlier that has left the queues is finished
EarlierAreFinished ==
    \A id \in CallIds : (acceptedWhen[id] # "no" /\ ~InQueues(id)) => finished[id] = 1

\* a step from queue q to queue r leaves it alone, puts a newly accepted request at its
\* tail, or takes its head; the head goes to the worker, which holds no other request
QueueStep(q, r, nextEntry, nextAccepted) ==
    \/ r = q
    \/ /\ Len(r) = Len(q) + 1
       /\ SubSeq(r, 1, Len(q)) = q
       /\ acceptedWhen[r[Len(r)].id] = "no"
       /\ nextAccepted[r[Len(r)].id] # "no"
    \/ /\ q # <<>>
       /\ r = Tail(q)
       /\ wentry = NoEntry
       /\ nextEntry = Head(q)
       /\ EarlierAreFinished

\* C19: each queue is first-in first-out and the worker serves one request at a time: a
\* request joins at the tail, only the head is taken out, by the worker loop or by the
\* cleanup drain, and when it is taken out every request that left the queues before it is
\* finished; only the request the worker holds gets finished, and once
C19_QueuesAreFifo ==
    [][/\ QueueStep(snapshotReq, snapshotReq', wentry', acceptedWhen')
       /\ QueueStep(checkpointReq, checkpointReq', wentry', acceptedWhen')
       /\ \A id \in CallIds :
             finished'[id] # finished[id] =>
                 /\ wentry # NoEntry
                 /\ id = wentry.id
                 /\ ~InQueues(id)
                 /\ finished[id] = 0
                 /\ finished'[id] = 1]_vars

\* C19 witness: two requests were accepted on the snapshot queue before Close, the one of
\* the later call first; the cleanup drain has taken that one out and the other still waits
C19_Witness ==
    /\ wpc = "cleanupFinish"
    /\ wentry.newDb
    /\ Len(snapshotReq) = 1
    /\ acceptedWhen[wentry.id] = "beforeClose"
    /\ acceptedWhen[snapshotReq[1].id] = "beforeClose"
    /\ wentry.id > snapshotReq[1].id
    /\ finished[wentry.id] = 0

(***************************************************************************)
(* CloseSpec: the runs of Spec in which every call supplies a leavesChan   *)
(* and Close is called up to MaxCloses times, one call after the other     *)
(* (the calls are serialised by storageOperationMutex).                    *)
(***************************************************************************)
\* storageOperationMutex.Lock(); tsm.cancelFunc(); a later Close call of a run: Close
\* does not test tsm.closed, and cancelling a cancelled context does nothing
CloseLockAgain ==
    /\ cpc = "idle"
    /\ closesStarted \in 1..(MaxCloses - 1)
    /\ lock = "none"
    /\ lock' = "Close"
    /\ cancelled' = TRUE
    /\ closesStarted' = closesStarted + 1
    /\ cpc' = "setClosed"
    /\ UNCHANGED <<storeVars, checkpointHashesHolder, cfgVars, u32Vars,
                   pruningBlockingOps, queueVars, closed, closerFired, closesReturned,
                   persisterCloses, subVars, workVars, obsVars, extVars>>

NextClose ==
    /\ \/ \E p \in Submitters : Submitter(p)
       \/ Worker
       \/ Closer
       \/ CloseLockAgain
    /\ EveryCallSupplies'

CloseSpec == Init /\ [][NextClose]_vars

\* C20: over any run no persister (the legacy storer, the snapshot databases, the main
\* storer, the checkpoints storer) has its Close called more than once, and when a Close
\* call of the manager has returned each has had it called exactly once
C20_PersistersClosedOnce ==
    /\ persisterCloses.db <= 1
    /\ persisterCloses.mainStorer <= 1
    /\ persisterCloses.checkpointsStorer <= 1
    /\ \A i \in DOMAIN persisterCloses.snapshots : persisterCloses.snapshots[i] <= 1
    /\ closesReturned > 0 =>
          /\ persisterCloses.db = 1
          /\ persisterCloses.mainStorer = 1
          /\ persisterCloses.checkpointsStorer = 1
          /\ \A i \in 1..Len(snapshots) : persisterCloses.snapshots[i] = 1

\* a second Close call has returned, and every persister has had its Close called twice
C20_ClosedTwice ==
    /\ closesReturned = 2
    /\ persisterCloses.db = 2
    /\ persisterCloses.mainStorer = 2
    /\ persisterCloses.checkpointsStorer = 2
    /\ Len(snapshots) > 0
    /\ \A i \in 1..Len(snapshots) : persisterCloses.snapshots[i] = 2

(***************************************************************************)
(* CloseErrSpec: one Close call on a manager with n snapshot databases,    *)
(* for every set of persisters whose Close returns an error.  Persisters   *)
(* are numbered as in PersisterIds; the error Close keeps is written as    *)
(* the number of the persister that returned it, 0 for nil.                *)
(***************************************************************************)
\* the result of persister.Close() for persister id, put into err when it is not nil
KeepError(id, errs, err) == IF id \in errs THEN id ELSE err

\* the loop of Close over tsm.snapshots, from index i to n
RECURSIVE CloseSnapshots(_, _, _, _)
CloseSnapshots(i, n, errs, acc) ==
    IF i > n THEN acc
    ELSE CloseSnapshots(i + 1, n, errs,
                        [log |-> Append(acc.log, 3 + i),
                         err |-> KeepError(3 + i, errs, acc.err)])

\* a faulty Close, which returns at the first persister that fails to close
CloseStopsAtFirstError(n, errs) ==
    LET order == <<2>> \o [i \in 1..n |-> 3 + i] \o <<1, 3>>
        failing == {k \in 1..Len(order) : order[k] \in errs}
        last == IF failing = {} THEN Len(order)
                ELSE CHOOSE k \in failing : \A m \in failing : k <= m
    IN [done |-> TRUE,
        log |-> SubSeq(order, 1, last),
        ret |-> IF failing = {} THEN "nil" ELSE "trieStorageManager close failed"]

\* Close, lines 482-508: tsm.db.Close(), sdb.Close() for every snapshot database,
\* tsm.mainStorer.Close(), tsm.checkpointsStorer.Close(); log is the sequence of the
\* persisters whose Close was invoked, ret the error Close returns
Close(n, errs) ==
    LET first == [log |-> <<2>>, err |-> KeepError(2, errs, 0)]
        afterSnapshots == CloseSnapshots(1, n, errs, first)
        afterMain == [log |-> Append(afterSnapshots.log, 1),
                      err |-> KeepError(1, errs, afterSnapshots.err)]
        afterCheckpoints == [log |-> Append(afterMain.log, 3),
                             err |-> KeepError(3, errs, afterMain.err)]
    IN [done |-> TRUE,
        log |-> afterCheckpoints.log,
        ret |-> IF afterCheckpoints.err # 0 THEN "trieStorageManager close failed"
                ELSE "nil"]

InitCloseErr ==
    /\ InitManager(SnapshotsBufferLen, U32Zero)
    /\ \E n \in 0..MaxSnapshotsLen :
          callArgs \in [op : {"Close"}, n : {n}, errs : SUBSET (1..(3 + n))]
    /\ callResult = NotCalled

CloseCall ==
    /\ callArgs.op = "Close"
    /\ ~callResult.done
    /\ callResult' = Close(callArgs.n, callArgs.errs)
    /\ UNCHANGED <<managerVars, callArgs>>

CloseErrSpec == InitCloseErr /\ [][CloseCall]_vars

\* C21: Close invokes Close on the legacy storer (2), then on every snapshot database in
\* list order (4, 5, ...), then on the main storer (1), then on the checkpoints storer
\* (3), whatever errors they return, and returns an error exactly when one of them did
C21_CloseClosesAllInOrder ==
    callResult.done =>
        /\ callResult.log =
              <<2>> \o [i \in 1..callArgs.n |-> 3 + i] \o <<1, 3>>
        /\ (callResult.ret # "nil") <=> (callArgs.errs # {})

\* C21 witness: the legacy storer and the first of two snapshot databases failed to
\* close, the others did not, and Close returned its error after closing all five
C21_Witness ==
    /\ callResult.done
    /\ callArgs.n = 2
    /\ callArgs.errs = {2, 4}
    /\ Len(callResult.log) = 5
    /\ callResult.ret # "nil"

(***************************************************************************)
(* ConstructSpec: one NewTrieStorageManager call, for every set of nil     *)
(* dependencies and every content of the snapshot directory.  A child of   *)
(* the directory is a file or a directory; strconv.Atoi parses its name or *)
(* not (name is the integer it yields), and storageUnit.NewDB opens it or   *)
(* fails (dbErr).                                                          *)
(***************************************************************************)
Dependencies ==
    {"DB", "MainStorer", "CheckpointsStorer", "Marshalizer", "Hasher",
     "CheckpointHashesHolder"}

\* the integers the names of the snapshot directories stand for: "0", "1", ...
SnapshotNames == 0..MaxSnapshotName

Children ==
    [isDir : {FALSE}, parses : {FALSE}, name : {0}, dbErr : {FALSE}]
        \cup [isDir : {TRUE}, parses : {FALSE}, name : {0}, dbErr : {FALSE}]
        \cup [isDir : {TRUE}, parses : {TRUE}, name : SnapshotNames, dbErr : BOOLEAN]

\* directoryExists fails (exists FALSE), ioutil.ReadDir fails (readErr), or the children
RECURSIVE ChildLists(_)
ChildLists(n) ==
    IF n = 0 THEN {<<>>}
    ELSE ChildLists(n - 1)
             \cup {Append(l, c) : l \in {k \in ChildLists(n - 1) : Len(k) = n - 1},
                                  c \in Children}

Directories ==
    {[exists |-> FALSE, readErr |-> FALSE, files |-> <<>>],
     [exists |-> TRUE, readErr |-> TRUE, files |-> <<>>]}
        \cup [exists : {TRUE}, readErr : {FALSE}, files : ChildLists(MaxDirLen)]

\* the keys of the map in ascending order: sort.Ints(keys)
RECURSIVE SortInts(_)
SortInts(keys) ==
    IF keys = {} THEN <<>>
    ELSE LET least == CHOOSE k \in keys : \A m \in keys : k <= m
         IN <<least>> \o SortInts(keys \ {least})

\* a faulty getOrderedSnapshots, which leaves out sort.Ints: the databases come in the
\* order they were opened in
RECURSIVE OpenedOrder(_, _)
OpenedOrder(snapshotsMap, keys) ==
    IF keys = {} THEN <<>>
    ELSE LET first == CHOOSE k \in keys :
                          \A m \in keys : snapshotsMap[k].at <= snapshotsMap[m].at
         IN <<snapshotsMap[first]>> \o OpenedOrder(snapshotsMap, keys \ {first})

getOrderedSnapshotsUnsorted(snapshotsMap) ==
    OpenedOrder(snapshotsMap, DOMAIN snapshotsMap)

\* getOrderedSnapshots: snapshotsMap is a function from the integer names to the
\* databases opened for them
getOrderedSnapshots(snapshotsMap) ==
    LET keys == SortInts(DOMAIN snapshotsMap)
    IN [i \in 1..Len(keys) |-> snapshotsMap[keys[i]]]

\* the loop of getSnapshotsAndSnapshotId over files, from index i on; a snapshot database
\* is written as its integer name (id) and the index of its directory (at)
RECURSIVE RestoreSnapshots(_, _, _, _)
RestoreSnapshots(files, i, snapshotsMap, snapshotId) ==
    IF i > Len(files)
    THEN [snapshots |-> getOrderedSnapshots(snapshotsMap),
          snapshotId |-> IF DOMAIN snapshotsMap # {} THEN snapshotId + 1 ELSE snapshotId,
          err |-> "nil"]
    ELSE LET f == files[i]
         IN IF ~f.isDir
            THEN RestoreSnapshots(files, i + 1, snapshotsMap, snapshotId)
            ELSE IF ~f.parses
            THEN [snapshots |-> getOrderedSnapshots(snapshotsMap),
                  snapshotId |-> snapshotId, err |-> "strconv.Atoi"]
            ELSE IF f.dbErr
            THEN [snapshots |-> getOrderedSnapshots(snapshotsMap),
                  snapshotId |-> snapshotId, err |-> "storageUnit.NewDB"]
            ELSE RestoreSnapshots(
                     files, i + 1,
                     [k \in DOMAIN snapshotsMap \cup {f.name} |->
                         IF k = f.name THEN [id |-> f.name, at |-> i]
                         ELSE snapshotsMap[k]],
                     IF f.name > snapshotId THEN f.name ELSE snapshotId)

getSnapshotsAndSnapshotId(dir) ==
    IF ~dir.exists
    THEN [snapshots |-> <<>>, snapshotId |-> 0, err |-> "nil"]
    ELSE IF dir.readErr
    THEN [snapshots |-> <<>>, snapshotId |-> 0, err |-> "ioutil.ReadDir"]
    ELSE RestoreSnapshots(dir.files, 1, <<>>, 0)

\* what NewTrieStorageManager returns with an error: no manager, no goroutine started
NoManager(err) == [done |-> TRUE, built |-> FALSE, err |-> err, workers |-> 0]

\* a faulty NewTrieStorageManager, which does not test the hasher
NewTrieStorageManagerNoHasherTest(nilArgs, dir) ==
    IF "DB" \in nilArgs THEN NoManager("ErrNilDatabase")
    ELSE IF "MainStorer" \in nilArgs THEN NoManager("ErrNilStorer for main storer")
    ELSE IF "CheckpointsStorer" \in nilArgs
    THEN NoManager("ErrNilStorer for checkpoints storer")
    ELSE IF "Marshalizer" \in nilArgs THEN NoManager("ErrNilMarshalizer")
    ELSE IF "CheckpointHashesHolder" \in nilArgs
    THEN NoManager("ErrNilCheckpointHashesHolder")
    ELSE LET found == getSnapshotsAndSnapshotId(dir)
         IN [done |-> TRUE, built |-> TRUE, err |-> "nil", workers |-> 1,
             logged |-> found.err,
             snapshots |-> found.snapshots,
             snapshotId |-> found.snapshotId,
             snapshotReq |-> <<>>,
             checkpointReq |-> <<>>,
             pruningBlockingOps |-> 0,
             closed |-> FALSE]

\* NewTrieStorageManager(args): nilArgs are the dependencies that are nil in args, dir
\* is what args.SnapshotDbConfig.FilePath holds.  The error of getSnapshotsAndSnapshotId
\* is logged (logged) and dropped; closed is the zero value of the field; workers counts the
\* go tsm.doCheckpointsAndSnapshots statements executed
NewTrieStorageManager(nilArgs, dir) ==
    IF "DB" \in nilArgs THEN NoManager("ErrNilDatabase")
    ELSE IF "MainStorer" \in nilArgs THEN NoManager("ErrNilStorer for main storer")
    ELSE IF "CheckpointsStorer" \in nilArgs
    THEN NoManager("ErrNilStorer for checkpoints storer")
    ELSE IF "Marshalizer" \in nilArgs THEN NoManager("ErrNilMarshalizer")
    ELSE IF "Hasher" \in nilArgs THEN NoManager("ErrNilHasher")
    ELSE IF "CheckpointHashesHolder" \in nilArgs
    THEN NoManager("ErrNilCheckpointHashesHolder")
    ELSE LET found == getSnapshotsAndSnapshotId(dir)
         IN [done |-> TRUE, built |-> TRUE, err |-> "nil", workers |-> 1,
             logged |-> found.err,
             snapshots |-> found.snapshots,
             snapshotId |-> found.snapshotId,
             snapshotReq |-> <<>>,
             checkpointReq |-> <<>>,
             pruningBlockingOps |-> 0,
             closed |-> FALSE]

\* with a nil dependency the directory is never read: those calls are made for the
\* directories without children only
InitConstruct ==
    /\ InitManager(SnapshotsBufferLen, U32Zero)
    /\ callArgs \in [op : {"NewTrieStorageManager"}, nilArgs : SUBSET Dependencies,
                     dir : Directories]
    /\ callArgs.nilArgs # {} => callArgs.dir.files = <<>>
    /\ callResult = NotCalled

NewTrieStorageManagerCall ==
    /\ callArgs.op = "NewTrieStorageManager"
    /\ ~callResult.done
    /\ callResult' = NewTrieStorageManager(callArgs.nilArgs, callArgs.dir)
    /\ UNCHANGED <<managerVars, callArgs>>

ConstructSpec == InitConstruct /\ [][NewTrieStorageManagerCall]_vars

\* the integer names of the snapshot databases of a list
IdsOf(list) == {list[i].id : i \in 1..Len(list)}

\* C22: the next snapshot id of the constructed manager is greater than the id of every
\* snapshot database in its list: it is the largest of these ids plus one, and 0 when
\* the list is empty
C22_NextIdAboveEveryId ==
    (callResult.done /\ callResult.built) =>
        /\ \A id \in IdsOf(callResult.snapshots) : id < callResult.snapshotId
        /\ callResult.snapshotId =
              IF callResult.snapshots = <<>> THEN 0
              ELSE 1 + CHOOSE id \in IdsOf(callResult.snapshots) :
                           \A other \in IdsOf(callResult.snapshots) : other <= id

\* the manager was built from a directory with a snapshot directory followed by a
\* directory whose name is no integer: its next snapshot id is the id of a database it holds
C22_NextIdCollides ==
    /\ callResult.done /\ callResult.built
    /\ callResult.snapshotId \in IdsOf(callResult.snapshots)

\* the child stops the discovery with an error
StopsDiscovery(f) == f.isDir /\ (~f.parses \/ f.dbErr)

\* the children the discovery gets to: those before the first one that stops it
ReadChildren(files) ==
    {i \in 1..Len(files) : \A k \in 1..i : ~StopsDiscovery(files[k])}

\* C23: the snapshot databases come sorted by ascending integer id, and they are the
\* directories read before the discovery stopped; a directory that does not exist gives
\* the empty list, next id 0 and no error; a child that is a file is skipped, and changes
\* neither the list nor the error; a directory whose name is no integer gives an error
C23_DiscoverySortedById ==
    (callResult.done /\ callResult.built) =>
        LET dir == callArgs.dir
            list == callResult.snapshots
        IN /\ \A i, j \in 1..Len(list) : i < j => list[i].id < list[j].id
           /\ IdsOf(list) =
                 {dir.files[i].name : i \in {k \in ReadChildren(dir.files) :
                                                dir.files[k].isDir}}
           /\ ~dir.exists =>
                 (list = <<>> /\ callResult.snapshotId = 0 /\ callResult.logged = "nil")
           /\ (callResult.logged = "nil") <=>
                 (~dir.readErr /\ \A i \in 1..Len(dir.files) : ~StopsDiscovery(dir.files[i]))
           /\ (\E i \in 1..Len(dir.files) : dir.files[i].isDir /\ ~dir.files[i].parses) =>
                 callResult.logged # "nil"

\* C23 witness: the directory lists snapshot 2 before snapshot 1 (as "02" and "1"), with
\* a file between them; the manager holds the two databases, 1 first, and no error
C23_Witness ==
    /\ callResult.done /\ callResult.built
    /\ Len(callArgs.dir.files) = 3
    /\ callArgs.dir.files[1].isDir /\ callArgs.dir.files[1].name = 2
    /\ ~callArgs.dir.files[2].isDir
    /\ callArgs.dir.files[3].isDir /\ callArgs.dir.files[3].name = 1
    /\ callResult.logged = "nil"
    /\ Len(callResult.snapshots) = 2
    /\ callResult.snapshots[1].id = 1
    /\ callResult.snapshots[2].id = 2

\* C25: with a nil DB, main storer, checkpoints storer, marshalizer, hasher or checkpoint
\* hashes holder NewTrieStorageManager returns an error, no manager, and starts no
\* worker; otherwise it returns no error and a manager with counter 0, closed unset and
\* both queues empty, and has started one worker
C25_NilDependencyNoManager ==
    callResult.done =>
        IF callArgs.nilArgs # {}
        THEN ~callResult.built /\ callResult.err # "nil" /\ callResult.workers = 0
        ELSE /\ callResult.built
             /\ callResult.err = "nil"
             /\ callResult.workers = 1
             /\ callResult.pruningBlockingOps = 0
             /\ ~callResult.closed
             /\ callResult.snapshotReq = <<>>
             /\ callResult.checkpointReq = <<>>

\* C25 witness: the hasher alone was nil, and the call returned ErrNilHasher
C25_Witness ==
    /\ callResult.done
    /\ callArgs.nilArgs = {"Hasher"}
    /\ ~callResult.built
    /\ callResult.err = "ErrNilHasher"

(***************************************************************************)
(* RetentionSpec: the snapshot database registry while the worker serves   *)
(* snapshot requests.  The manager starts with the list and the next id    *)
(* that NewTrieStorageManager kept from the discovery, for every content   *)
(* of the snapshot directory, every maxSnapshots and keepSnapshots.  The   *)
(* worker's takeSnapshot hands the manager to newSnapshotTrieStorageManager*)
(* whose code is not part of the source at hand: opening a database for a  *)
(* request with newDb set, and the retention after it, follow the          *)
(* specification's section 4.4.                                            *)
(***************************************************************************)
\* the lists and next ids a constructed manager can hold
Discovered ==
    {[snapshots |-> found.snapshots, snapshotId |-> found.snapshotId] :
        found \in {getSnapshotsAndSnapshotId(dir) : dir \in Directories}}

\* Retention: when the list is longer than maxSnapshots after the append, the oldest
\* database is removed from it and closed; its directory is destroyed unless
\* keepSnapshots is set
removeSnapshot(reg, maxSnapshots, keepSnapshots) ==
    IF Len(reg.snapshots) > maxSnapshots
    THEN [reg EXCEPT !.snapshots = Tail(reg.snapshots),
                     !.closedDbs = @ \cup {Head(reg.snapshots).id},
                     !.destroyed = IF keepSnapshots THEN @
                                   ELSE @ \cup {Head(reg.snapshots).id}]
    ELSE reg

\* Opening a new snapshot database: a persister at <snapshotDir>/<nextId> is appended
\* to the list and the next id is incremented; the retention follows
newSnapshotDb(reg, maxSnapshots, keepSnapshots) ==
    removeSnapshot([reg EXCEPT !.snapshots = Append(@, [id |-> reg.snapshotId,
                                                        at |-> Len(reg.snapshots) + 1]),
                               !.snapshotId = @ + 1],
                   maxSnapshots, keepSnapshots)

InitRetention ==
    /\ InitManager(SnapshotsBufferLen, U32Zero)
    /\ callArgs \in [op : {"takeSnapshot"}, maxSnapshots : 0..MaxMaxSnapshots,
                     keepSnapshots : BOOLEAN]
    /\ \E found \in Discovered :
          callResult = [done |-> FALSE,
                        discovered |-> Len(found.snapshots),
                        snapshots |-> found.snapshots,
                        snapshotId |-> found.snapshotId,
                        closedDbs |-> {}, destroyed |-> {},
                        served |-> 0, newDbs |-> 0]

\* the worker serves a snapshot request that has newDb set
takeSnapshotNewDb ==
    /\ callArgs.op = "takeSnapshot"
    /\ callResult.served < MaxServed
    /\ callResult' =
          [newSnapshotDb(callResult, callArgs.maxSnapshots, callArgs.keepSnapshots)
              EXCEPT !.done = TRUE, !.served = @ + 1, !.newDbs = @ + 1]
    /\ UNCHANGED <<managerVars, callArgs>>

\* the worker serves a snapshot request that has newDb unset: the registry is left alone
takeSnapshotSameDb ==
    /\ callArgs.op = "takeSnapshot"
    /\ callResult.served < MaxServed
    /\ callResult' = [callResult EXCEPT !.done = TRUE, !.served = @ + 1]
    /\ UNCHANGED <<managerVars, callArgs>>

RetentionSpec == InitRetention /\ [][takeSnapshotNewDb \/ takeSnapshotSameDb]_vars

\* C24: once a snapshot request with newDb set has been served, the list holds at most
\* maxSnapshots snapshot databases
C24_AtMostMaxSnapshots ==
    (callArgs.op = "takeSnapshot" /\ callResult.newDbs > 0) =>
        Len(callResult.snapshots) <= callArgs.maxSnapshots

\* C24: the discovery found more snapshot databases than maxSnapshots; a request with
\* newDb set was served, one database was evicted, and the list is still longer than
\* maxSnapshots
C24_MoreThanMaxSnapshots ==
    /\ callArgs.op = "takeSnapshot"
    /\ callResult.newDbs > 0
    /\ callResult.discovered > callArgs.maxSnapshots
    /\ callResult.closedDbs # {}
    /\ Len(callResult.snapshots) > callArgs.maxSnapshots

(***************************************************************************)
(* WorkerSpec: the worker's processing loop and its cleanup drain.  Its    *)
(* runs are those of Spec in which the counter is used by TakeSnapshot,    *)
(* SetCheckpoint and the worker only.                                      *)
(***************************************************************************)
NextWorker ==
    \/ \E p \in Submitters : Submitter(p)
    \/ Worker
    \/ Closer

WorkerSpec == Init /\ [][NextWorker]_vars

\* the outcomes of takeSnapshot and takeCheckpoint: the root node cannot be decoded, the
\* snapshot view cannot be built, the walker returns nil, ErrContextClosing or another
\* error
Outcomes == {"decodeError", "stsmError", "nil", "ErrContextClosing", "error"}

\* C26: the procedure the worker runs for a request it took in its processing loop
\* changes neither the counter nor the leavesChan, whatever its outcome; finishOperation,
\* which follows it, decrements the counter by one and closes the request's leavesChan
\* (when there is one), both for the first time for this request, and the worker is
\* back at its select; no request is ever finished twice, no leavesChan closed twice
C26_WorkerFinishesEveryRequest ==
    /\ [][(wpc' # wpc) =>
             /\ (wpc \in {"takeSnapshot", "takeCheckpoint"}) =>
                    /\ wpc' = "finishOperation"
                    /\ woutcome' \in Outcomes
                    /\ UNCHANGED <<pruningBlockingOps, chanCloses, finished, wentry>>
             /\ (wpc = "finishOperation") =>
                    /\ pruningBlockingOps >= 1
                    /\ pruningBlockingOps' = pruningBlockingOps - 1
                    /\ finished[wentry.id] = 0
                    /\ finished' = [finished EXCEPT ![wentry.id] = 1]
                    /\ chanCloses' =
                          IF wentry.leavesChan = NilChan THEN chanCloses
                          ELSE [chanCloses EXCEPT ![wentry.leavesChan] = 1]
                    /\ wentry.leavesChan # NilChan => chanCloses[wentry.leavesChan] = 0
                    /\ wpc' = "loop"]_vars
    /\ [](\A id \in CallIds : finished[id] <= 1 /\ chanCloses[id] <= 1)

\* C26 witness: the worker finished a request whose root node could not be decoded, went
\* back to its select, took the next request, and is finishing that one after a walker
\* error
C26_Witness ==
    /\ wpc = "finishOperation"
    /\ woutcome = "error"
    /\ \E id \in CallIds :
          /\ id # wentry.id
          /\ finished[id] = 1
          /\ chanCloses[id] = 1
    /\ ~cancelled

\* the worker left its processing loop and has not ended
InCleanup == wpc \in {"cleanupWait", "cleanup", "cleanupFinish"}

\* C27: the worker leaves its processing loop on the cancellation only; from then on it
\* takes an entry out of a queue only after the closer signal has fired, the entry being
\* the head of that queue; it finishes every entry it took (counter decremented by one,
\* leavesChan closed, both for the first time for this entry) before it looks at the
\* queues again, and it ends only in a state where both queues are empty
C27_CleanupDrainsAfterCloser ==
    /\ [][(wpc' # wpc) =>
             /\ (wpc' = "cleanupWait") => (wpc = "loop" /\ cancelled)
             /\ (wpc = "cleanupWait") =>
                    /\ closerFired
                    /\ wpc' = "cleanup"
                    /\ UNCHANGED <<queueVars, pruningBlockingOps, chanCloses, finished>>
             /\ (wpc = "cleanup" /\ wpc' # "done") =>
                    /\ closerFired
                    /\ wpc' = "cleanupFinish"
                    /\ \/ /\ snapshotReq # <<>>
                          /\ wentry' = Head(snapshotReq)
                          /\ snapshotReq' = Tail(snapshotReq)
                          /\ UNCHANGED checkpointReq
                       \/ /\ checkpointReq # <<>>
                          /\ wentry' = Head(checkpointReq)
                          /\ checkpointReq' = Tail(checkpointReq)
                          /\ UNCHANGED snapshotReq
                    /\ UNCHANGED <<pruningBlockingOps, chanCloses, finished>>
             /\ (wpc = "cleanupFinish") =>
                    /\ wpc' = "cleanup"
                    /\ pruningBlockingOps >= 1
                    /\ pruningBlockingOps' = pruningBlockingOps - 1
                    /\ finished[wentry.id] = 0
                    /\ finished' = [finished EXCEPT ![wentry.id] = 1]
                    /\ chanCloses' =
                          IF wentry.leavesChan = NilChan THEN chanCloses
                          ELSE [chanCloses EXCEPT ![wentry.leavesChan] = 1]
                    /\ wentry.leavesChan # NilChan => chanCloses[wentry.leavesChan] = 0
                    /\ UNCHANGED queueVars
             /\ (wpc' = "done") =>
                    /\ wpc = "cleanup"
                    /\ closerFired
                    /\ snapshotReq = <<>> /\ checkpointReq = <<>>
                    /\ UNCHANGED <<queueVars, pruningBlockingOps, chanCloses, finished>>]_vars
    /\ [][(InCleanup /\ ~closerFired) =>
             /\ Len(snapshotReq') >= Len(snapshotReq)
             /\ Len(checkpointReq') >= Len(checkpointReq)]_vars

\* C27 witness: after the closer signal the worker took a request out of the snapshot
\* queue, while the checkpoint queue holds another one it has still to drain
C27_Witness ==
    /\ wpc = "cleanupFinish"
    /\ closerFired
    /\ wentry.id \in CallIds
    /\ wentry.newDb \in BOOLEAN
    /\ snapshotReq = <<>>
    /\ Len(checkpointReq) = 1

(***************************************************************************)
(* The order of the steps of Close, under CloseSpec.                       *)
(***************************************************************************)
\* C28: a Close call fires the cancellation, then sets closed, then closes the
\* persisters, then fires the closer signal, then releases the lock; the closer signal
\* is not fired in any state in which the call has a persister still to close
C28_CloserFiresAfterPersisters ==
    /\ cpc = "setClosed" => (cancelled /\ lock = "Close")
    /\ cpc = "persisters" => (cancelled /\ closed /\ lock = "Close")
    /\ cpc = "closer" =>
          /\ cancelled /\ closed /\ lock = "Close"
          /\ persisterCloses.db = closesStarted
          /\ persisterCloses.mainStorer = closesStarted
          /\ persisterCloses.checkpointsStorer = closesStarted
    /\ cpc = "unlock" => (closerFired /\ lock = "Close")
    /\ cpc \in {"setClosed", "persisters"} => ~closerFired
    /\ closerFired => closesReturned >= closesStarted - 1

\* C28: a second Close call is about to close the persisters, and the closer signal has
\* been fired since the first call
C28_CloserFiredBeforePersisters ==
    /\ cpc = "persisters"
    /\ closesStarted = 2
    /\ closesReturned = 1
    /\ persisterCloses.db = 1
    /\ closerFired

(***************************************************************************)
(* LockSpec: the manager lock and the calls that wait at their select.     *)
(* Its runs are those of Spec in which every call supplies a leavesChan,   *)
(* which no lock depends on.                                               *)
(***************************************************************************)
NextLock == Next /\ EveryCallSupplies'

LockSpec == Init /\ [][NextLock]_vars

\* the call of p waits at its select: its queue is full and the closer has not fired
Blocked(p) == AtSelect(p) /\ ~CanSend(QueueOf(p)) /\ ~closerFired

\* C30: while a TakeSnapshot or SetCheckpoint call is at its select, the manager lock is
\* free or held by Close, never by the call; when no Close call is running the lock is
\* free, and Get, Put, Remove, Close, the EnterPruningBufferingMode or
\* ExitPruningBufferingMode of another caller, and the worker's finishOperation can take
\* it at once (IsPruningBlocked reads the counter under the same lock)
C30_NoLockHeldAtSelect ==
    (\E p \in Submitters : AtSelect(p)) =>
        /\ lock \in {"none", "Close"}
        /\ lock = "Close" <=> cpc # "idle"
        /\ cpc = "idle" =>
              /\ ENABLED GetCall
              /\ ENABLED Put
              /\ ENABLED Remove
              /\ closesStarted = 0 => ENABLED CloseLock
              /\ \A e \in ExternalCallers :
                    IF epc[e] = "out" THEN ENABLED EnterPruningBufferingMode(e)
                    ELSE ENABLED ExitPruningBufferingMode(e)
              /\ wpc \in {"finishOperation", "cleanupFinish"} => ENABLED finishOperation
              /\ wpc = "takeSnapshot" => ENABLED takeSnapshot
              /\ IsPruningBlocked

\* C30 witness: a call is blocked at its select on a full queue while another caller is
\* between its EnterPruningBufferingMode and its ExitPruningBufferingMode, and the lock
\* is free
C30_Witness ==
    /\ \E p \in Submitters : Blocked(p) /\ Len(QueueOf(p)) = queueCap
    /\ epc["e1"] = "in"
    /\ cpc = "idle"
    /\ lock = "none"

(***************************************************************************)
(* LoadSpec: the processing loop under load, with no Close call.  Besides  *)
(* the numbered calls, other clients keep calling TakeSnapshot and         *)
(* SetCheckpoint with a nil leavesChan, without end; their entries carry   *)
(* the number 0.  A select with several ready cases chooses one of them    *)
(* at random, so a case that is ready again and again is chosen in the     *)
(* end: strong fairness of each receive of doProcessLoop.  The procedures  *)
(* return: weak fairness of takeSnapshot, takeCheckpoint, finishOperation. *)
(***************************************************************************)
\* a TakeSnapshot call of the load that finds room in the queue, from its
\* EnterPruningBufferingMode to its send
LoadTakeSnapshot ==
    /\ lock = "none"
    /\ ~closed
    /\ CanSend(snapshotReq)
    /\ pruningBlockingOps' = EnterCount(pruningBlockingOps)
    /\ checkpointHashesHolder' = RemoveCommitted(checkpointHashesHolder, "h1")
    /\ snapshotReq' = Append(snapshotReq, Entry(0, "h1", FALSE, NilChan))
    /\ UNCHANGED <<storeVars, cfgVars, u32Vars, lock, checkpointReq, closeVars, subVars,
                   workVars, obsVars, extVars>>

\* a SetCheckpoint call of the load that finds room in the queue
LoadSetCheckpoint ==
    /\ lock = "none"
    /\ ~closed
    /\ CanSend(checkpointReq)
    /\ pruningBlockingOps' = EnterCount(pruningBlockingOps)
    /\ checkpointReq' = Append(checkpointReq, Entry(0, "h1", FALSE, NilChan))
    /\ UNCHANGED <<storeVars, checkpointHashesHolder, cfgVars, u32Vars, lock,
                   snapshotReq, closeVars, subVars, workVars, obsVars, extVars>>

\* the queues have one slot each, so that a little load keeps a queue full
InitLoad == InitWith(1, U32Zero)

\* the numbered calls are for the root hash "h1" and supply a leavesChan
NextLoad ==
    \/ \E p \in Submitters :
          \/ TakeSnapshotCall(p, "h1", FALSE, nextCall)
          \/ SetCheckpointCall(p, "h1", nextCall)
          \/ SubmitterEnter(p)
          \/ TakeSnapshotSend(p)
          \/ SetCheckpointSend(p)
    \/ LoadTakeSnapshot
    \/ LoadSetCheckpoint
    \/ doProcessLoopSnapshot
    \/ doProcessLoopCheckpoint
    \/ takeSnapshot
    \/ takeCheckpoint
    \/ finishOperation

LoadSpec ==
    /\ InitLoad
    /\ [][NextLoad]_vars
    /\ SF_vars(doProcessLoopSnapshot)
    /\ SF_vars(doProcessLoopCheckpoint)
    /\ WF_vars(takeSnapshot)
    /\ WF_vars(takeCheckpoint)
    /\ WF_vars(finishOperation)

\* the queue holds the entry of call id
Waits(q, id) == \E i \in 1..Len(q) : q[i].id = id

\* C29: a request that waits in the checkpoint queue is served in the end, whatever the
\* load on the snapshot queue, and a request that waits in the snapshot queue is served
\* in the end, whatever the load on the checkpoint queue
C29_NoStarvationUnderLoad ==
    \A id \in CallIds :
        (Waits(checkpointReq, id) \/ Waits(snapshotReq, id)) ~> (finished[id] = 1)

\* C29 witness: a numbered request waits in the checkpoint queue while the worker serves
\* a snapshot request of the load and the snapshot queue is full of them
C29_Witness ==
    /\ \E id \in CallIds : Waits(checkpointReq, id)
    /\ wpc = "takeSnapshot"
    /\ wentry.id = 0
    /\ Len(snapshotReq) = queueCap
    /\ \A i \in 1..Len(snapshotReq) : snapshotReq[i].id = 0

(***************************************************************************)
(* What a call has done by the time its request is on a queue, under       *)
(* LockSpec.                                                               *)
(***************************************************************************)
\* C31: a TakeSnapshot call increments the counter and calls RemoveCommitted(rootHash)
\* in the step before its select, and its send changes neither: the holder has no entry
\* for the root hash of a request on the snapshot queue, and the counter covers every
\* request on a queue; a SetCheckpoint call increments the counter before its select
\* and leaves the holder alone, and the requests on the checkpoint queue have newDb unset
C31_EnterAndRemoveBeforeEnqueue ==
    /\ [][\A p \in Submitters :
             (spc'[p] # spc[p]) =>
                 /\ (spc[p] = "tsEnter") =>
                        /\ spc'[p] = "tsSelect"
                        /\ pruningBlockingOps' = pruningBlockingOps + 1
                        /\ checkpointHashesHolder' =
                              RemoveCommitted(checkpointHashesHolder, sentry[p].rootHash)
                        /\ UNCHANGED queueVars
                 /\ (spc[p] = "scEnter") =>
                        /\ spc'[p] = "scSelect"
                        /\ pruningBlockingOps' = pruningBlockingOps + 1
                        /\ UNCHANGED <<checkpointHashesHolder, queueVars>>
                 /\ (spc[p] = "tsSelect" /\ spc'[p] = "idle") =>
                        /\ snapshotReq' = Append(snapshotReq, sentry[p])
                        /\ UNCHANGED <<checkpointReq, checkpointHashesHolder,
                                       pruningBlockingOps>>
                 /\ (spc[p] = "scSelect" /\ spc'[p] = "idle") =>
                        /\ checkpointReq' = Append(checkpointReq, sentry[p])
                        /\ ~sentry[p].newDb
                        /\ UNCHANGED <<snapshotReq, checkpointHashesHolder,
                                       pruningBlockingOps>>]_vars
    /\ [](/\ \A i \in 1..Len(snapshotReq) :
                snapshotReq[i].rootHash \notin DOMAIN checkpointHashesHolder
          /\ \A i \in 1..Len(checkpointReq) : ~checkpointReq[i].newDb
          /\ pruningBlockingOps >= Len(snapshotReq) + Len(checkpointReq) + Cardinality(Submitting))

\* C31 witness: a request of a TakeSnapshot call with newDb set is on the snapshot queue
\* and a request of a SetCheckpoint call is on the checkpoint queue; the holder has lost
\* the entry of the root hash and the counter is 2
C31_Witness ==
    /\ Len(snapshotReq) = 1
    /\ snapshotReq[1].newDb
    /\ Len(checkpointReq) = 1
    /\ "h1" \notin DOMAIN checkpointHashesHolder
    /\ pruningBlockingOps = 2
    /\ wpc = "loop"

\* C32: each queue holds at most SnapshotsBufferLen entries; a call before its
\* EnterPruningBufferingMode can make that step whenever no Close call holds the lock,
\* and a call at its select whose queue has a free slot can put its request there and
\* return at once, wherever the worker is
C32_QueuesBoundedSendNeedsNoWorker ==
    /\ queueCap = SnapshotsBufferLen
    /\ Len(snapshotReq) <= SnapshotsBufferLen
    /\ Len(checkpointReq) <= SnapshotsBufferLen
    /\ \A p \in Submitters :
          /\ (spc[p] \in {"tsEnter", "scEnter"} /\ cpc = "idle") =>
                ENABLED SubmitterEnter(p)
          /\ (spc[p] = "tsSelect" /\ Len(snapshotReq) < SnapshotsBufferLen) =>
                ENABLED (/\ TakeSnapshotSend(p)
                         /\ spc'[p] = "idle"
                         /\ snapshotReq' = Append(snapshotReq, sentry[p]))
          /\ (spc[p] = "scSelect" /\ Len(checkpointReq) < SnapshotsBufferLen) =>
                ENABLED (/\ SetCheckpointSend(p)
                         /\ spc'[p] = "idle"
                         /\ checkpointReq' = Append(checkpointReq, sentry[p]))

\* C32 witness: a TakeSnapshot call is at its select with the snapshot queue empty while
\* the worker is inside takeCheckpoint for an earlier request
C32_Witness ==
    /\ \E p \in Submitters : spc[p] = "tsSelect"
    /\ snapshotReq = <<>>
    /\ ~closed
    /\ wpc = "takeCheckpoint"

(***************************************************************************)
(* RaceSpec: the foreground calls that use the storers, and Close.         *)
(* SetEpochForPutOperation takes no lock: the call is looked at in two     *)
(* steps, its entry into the main storer and its return.                   *)
(***************************************************************************)
InitRace ==
    /\ InitManager(SnapshotsBufferLen, U32Zero)
    /\ callArgs \in [op : {"SetEpochForPutOperation"}, epoch : 0..1,
                     isEpochStorer : BOOLEAN]
    /\ callResult = [done |-> FALSE, pc |-> "idle"]

\* SetEpochForPutOperation(epoch) up to its call of the main storer: without the manager
\* lock; when the main storer is no epochStorer the call logs and returns
SetEpochForPutOperationCall ==
    /\ callArgs.op = "SetEpochForPutOperation"
    /\ callResult.pc = "idle"
    /\ callResult' = IF callArgs.isEpochStorer
                     THEN [done |-> FALSE, pc |-> "inMainStorer"]
                     ELSE [done |-> TRUE, pc |-> "returned"]
    /\ UNCHANGED <<managerVars, callArgs>>

\* storer.SetEpochForPutOperation(epoch) returns
SetEpochForPutOperationReturn ==
    /\ callArgs.op = "SetEpochForPutOperation"
    /\ callResult.pc = "inMainStorer"
    /\ callResult' = [done |-> TRUE, pc |-> "returned"]
    /\ UNCHANGED <<managerVars, callArgs>>

NextRace ==
    \/ SetEpochForPutOperationCall
    \/ SetEpochForPutOperationReturn
    \/ GetCall
    \/ Put
    \/ Remove
    \/ Closer

RaceSpec == InitRace /\ [][NextRace]_vars

\* C33: a goroutine that is inside a storer holds the manager lock: Close while it closes
\* the persisters, SetEpochForPutOperation while it is inside the main storer; so the
\* two are never inside the main storer together
C33_StorersUsedUnderLock ==
    /\ cpc = "persisters" => lock = "Close"
    /\ (callArgs.op = "SetEpochForPutOperation" /\ callResult.pc = "inMainStorer") =>
          /\ lock = "SetEpochForPutOperation"
          /\ cpc # "persisters"

\* C33: SetEpochForPutOperation is inside the main storer while Close, which holds the
\* lock, is closing it
C33_UnlockedUseDuringClose ==
    /\ callArgs.op = "SetEpochForPutOperation"
    /\ callResult.pc = "inMainStorer"
    /\ cpc = "persisters"
    /\ lock = "Close"

(***************************************************************************)
(* Who closes a leavesChan, under WorkerSpec.                              *)
(***************************************************************************)
\* the return statements of TakeSnapshot / SetCheckpoint that follow a safelyCloseChan
ClosingReturns == {"isClosed", "emptyTrie", "closer"}

\* C34: every close of a leavesChan is made by the worker: a leavesChan that is closed
\* belongs to a request the worker finished
C34_OnlyWorkerClosesChan ==
    \A id \in CallIds : chanCloses[id] <= finished[id]

\* C34, amended: the leavesChan of a request that was put on a queue is closed by the
\* worker only, in finishOperation; a submitting call closes its own leavesChan only
\* when it puts no request on a queue (manager closed, empty root hash, closer branch
\* of the select); no leavesChan is closed by both, nor twice
C34_WorkerClosesQueuedSubmitterTheRest ==
    \A id \in CallIds :
        /\ chanCloses[id] <= 1
        /\ acceptedWhen[id] # "no" =>
              /\ returnedBy[id] = "send"
              /\ chanCloses[id] = IF id \in supplied THEN finished[id] ELSE 0
        /\ returnedBy[id] \in ClosingReturns =>
              /\ acceptedWhen[id] = "no"
              /\ finished[id] = 0
              /\ chanCloses[id] = IF id \in supplied THEN 1 ELSE 0
        /\ chanCloses[id] = 1 =>
              (finished[id] = 1 \/ returnedBy[id] \in ClosingReturns)

\* C34 witness: the worker closed the leavesChan of the request it finished, and the
\* call that found its queue full closed its own leavesChan on the closer branch
C34_Witness ==
    \E id, other \in CallIds :
        /\ finished[id] = 1 /\ chanCloses[id] = 1
        /\ returnedBy[other] = "closer" /\ chanCloses[other] = 1
        /\ other \in foundFull

(***************************************************************************)
(* One request at a time, under WorkerSpec.                                *)
(***************************************************************************)
\* the number of entries of call id on the queue
Occurrences(q, id) == Cardinality({i \in 1..Len(q) : q[i].id = id})

\* C35: the one worker goroutine holds a request exactly while it is inside takeSnapshot,
\* takeCheckpoint or finishOperation, so it is in one procedure for one request at a
\* time; a request is on a queue once, or held by the worker, or finished once, and only
\* one of the three: none is served twice, none is served by the loop and finished by
\* the cleanup drain as well
C35_OneRequestAtATime ==
    /\ (wentry # NoEntry) <=> Serving
    /\ Serving => (wentry.id \in CallIds /\ acceptedWhen[wentry.id] # "no")
    /\ \A id \in CallIds :
          Occurrences(snapshotReq, id) + Occurrences(checkpointReq, id)
             + (IF wentry.id = id THEN 1 ELSE 0) + finished[id]
          = IF acceptedWhen[id] = "no" THEN 0 ELSE 1

\* C35 witness: the cleanup drain holds a checkpoint request after the processing loop
\* has served a snapshot request
C35_Witness ==
    /\ wpc = "cleanupFinish"
    /\ ~wentry.newDb
    /\ \E id \in CallIds : id # wentry.id /\ finished[id] = 1 /\ acceptedWhen[id] = "beforeClose"
    /\ snapshotReq = <<>> /\ checkpointReq = <<>>

(***************************************************************************)
(* The end of the worker, under FairSpec.                                  *)
(***************************************************************************)
\* C36: once Close has been called the worker ends: it leaves the processing loop,
\* passes the wait for the closer signal, drains the queues and returns, whatever the
\* queues hold and whatever request it was serving
C36_WorkerEndsAfterClose ==
    /\ (closesStarted > 0) ~> (wpc = "done")
    /\ [](wpc = "done" => (closerFired /\ wentry = NoEntry))
    /\ [][wpc = "done" => wpc' = "done"]_vars

\* C36 witness: the worker has ended after it finished a request that was put on its
\* queue while Close was running and another that was accepted before
C36_Witness ==
    /\ wpc = "done"
    /\ \E id, other \in CallIds :
          /\ acceptedWhen[id] = "closing" /\ finished[id] = 1
          /\ acceptedWhen[other] = "beforeClose" /\ finished[other] = 1

(***************************************************************************)
(* The processing loop after the cancellation, under WorkerSpec.           *)
(***************************************************************************)
\* C37: once the cancellation has fired the worker starts neither takeSnapshot nor
\* takeCheckpoint: it takes no request out of a queue in its processing loop, so it is
\* never inside one of the two procedures for a request it took after the cancellation
C37_NoProcedureAfterCancel ==
    [][(wpc = "loop" /\ wpc' \in {"takeSnapshot", "takeCheckpoint"}) => ~cancelled]_vars

\* C37: Close has closed the persisters and returned, and the worker is inside
\* takeSnapshot for a request that reached the queue after the cancellation had fired
C37_ProcedureOnClosedStorers ==
    /\ wpc = "takeSnapshot"
    /\ acceptedWhen[wentry.id] = "closing"
    /\ persisterCloses.mainStorer = 1
    /\ persisterCloses.db = 1
    /\ closesReturned = 1

(***************************************************************************)
(* Who waits for whom, under LockSpec.                                     *)
(***************************************************************************)
\* some goroutine is inside an operation it has not finished: a call of a submitter, a
\* Close call, or the worker with a request in its hands, on a queue, or with the
\* cancellation to follow
Unfinished ==
    \/ \E p \in Submitters : spc[p] # "idle"
    \/ cpc # "idle"
    \/ Serving
    \/ wpc \in {"cleanupWait", "cleanup"}
    \/ wpc = "loop" /\ (snapshotReq # <<>> \/ checkpointReq # <<>> \/ cancelled)

\* C38: no state is a deadlock.  While some goroutine is inside an operation, one of
\* them can take a step.  The lock is held across steps by a running Close call only,
\* which can always go on, so every other taker of the lock gets it; the worker waits
\* for the closer only while a Close call is running; a call blocked on a full queue
\* waits for the worker or for that Close call, one of which can take a step
C38_NoDeadlock ==
    /\ Unfinished => ENABLED ((\E p \in Submitters : InCall(p)) \/ Worker \/ CloseRunning)
    /\ lock = "Close" <=> cpc # "idle"
    /\ cpc # "idle" => ENABLED CloseRunning
    /\ lock \in {"none", "Close"}
    /\ lock = "none" =>
          /\ ENABLED GetCall /\ ENABLED Put /\ ENABLED Remove
          /\ \A e \in ExternalCallers :
                ENABLED (EnterPruningBufferingMode(e) \/ ExitPruningBufferingMode(e))
          /\ Serving => ENABLED Worker
    /\ (wpc = "cleanupWait" /\ ~closerFired) => cpc # "idle"
    /\ \A p \in Submitters : Blocked(p) => ENABLED (Worker \/ CloseRunning)

\* C38 witness: a call is blocked on its full queue, the worker has left its loop and
\* waits for the closer, and Close holds the lock with the persisters still to close
C38_Witness ==
    /\ \E p \in Submitters : Blocked(p)
    /\ wpc = "cleanupWait"
    /\ cpc = "persisters"
    /\ lock = "Close"
    /\ epc["e1"] = "in"

(***************************************************************************)
(* The worker as the machine Running -> Draining -> Stopped, under         *)
(* CloseSpec.                                                              *)
(***************************************************************************)
\* the state of the machine the worker is in: Running inside doProcessLoop, Draining
\* inside cleanupChans, Stopped once doCheckpointsAndSnapshots has returned
WorkerState ==
    IF wpc \in {"loop", "takeSnapshot", "takeCheckpoint", "finishOperation"}
    THEN "Running"
    ELSE IF InCleanup THEN "Draining"
    ELSE "Stopped"

\* C39: the worker starts in Running; its only moves are Running -> Draining, made when
\* the cancellation has fired, and Draining -> Stopped, made when the closer has fired
\* and both queues are empty; takeSnapshot and takeCheckpoint run in Running only; the
\* closed flag, the cancellation and the closer signal are never reset, whatever the
\* number of Close calls
C39_WorkerRefinesStateMachine ==
    /\ [][(wpc' # wpc) =>
             /\ (WorkerState' # WorkerState) =>
                   \/ /\ WorkerState = "Running" /\ WorkerState' = "Draining"
                      /\ wpc = "loop"
                      /\ cancelled
                   \/ /\ WorkerState = "Draining" /\ WorkerState' = "Stopped"
                      /\ closerFired
                      /\ snapshotReq = <<>> /\ checkpointReq = <<>>
             /\ (woutcome' # "none") => (WorkerState = "Running" /\ WorkerState' = "Running")
             /\ (wpc' \in {"takeSnapshot", "takeCheckpoint"}) => WorkerState = "Running"]_vars
    /\ [][/\ closed => closed'
          /\ cancelled => cancelled'
          /\ closerFired => closerFired']_vars
    /\ [](WorkerState = "Stopped" => (closed /\ cancelled /\ closerFired))

\* C39 witness: the worker is Stopped after the request of every call was finished, and
\* a second Close call is under way
C39_Witness ==
    /\ WorkerState = "Stopped"
    /\ closesStarted = 2
    /\ cpc = "persisters"
    /\ closed /\ cancelled /\ closerFired
    /\ \A id \in CallIds : finished[id] = 1
=============================================================================
